---- MODULE Spec2Model ----
(***************************************************************************)
(* VideoSort: file placement with a backup log (files_ops.py), batch       *)
(* processing (process.py), the identification fallback chain              *)
(* (process.py, tmdb_api.py).                                              *)
(*                                                                         *)
(* Python strings are modelled as sequences of tokens (a token is a        *)
(* character or an indivisible word); dicts are records, and d.get(k, v)   *)
(* is Get(d, k, v).                                                        *)
(***************************************************************************)
EXTENDS Integers, Sequences, FiniteSets, TLC

VARIABLES
    fs,          \* the file system: path -> content id of the file stored there
    backup,      \* the rows of the backup CSV, in file order
    lastMoves,   \* the shutil.move calls of the last handler: <<src, dst, ok>>
    restored,    \* return value of the last restore_from_backup
    errors,      \* the errors counter of the last restore_from_backup
    lastOp,      \* the handler that ran last
    nRestores,   \* number of restore_from_backup runs so far
    video_files, \* process_batch: the videos of the batch, in list order
    ident,       \* what identification finds for each video of the batch
    config,      \* config["processing"]: debug, rename_files, output_language
    stats,       \* process_batch: the counters
    results,     \* process_batch: the list of <<video, result, file_op_result>>
    nextTask,    \* pool: the next video to hand to a worker
    running,     \* pool: video index -> whether the file existed when it started
    ready,       \* pool: finished tasks in completion order, <<index, outcome>>
    bstate,      \* process_batch: "running", "returned", "raised", "crashed"
    pin,         \* process_single_video: the video, its content and the config
    pc,          \* process_single_video: the statement reached
    content_results, \* process_single_video: what analyze_video_content returned
    issued,      \* process_single_video: the identification queries issued so far
    p_result,    \* process_single_video: the local `result`
    p_is_movie,  \* process_single_video: the local `is_movie`
    detected,    \* process_single_video: [studios, actors] of steps 7 and 8
    temp_dir,    \* process_single_video: the files of its temp directory, if it exists
    ret,         \* process_single_video: the dict returned
    ain,         \* search_by_actors: the arguments and the API's answers
    aret,        \* search_by_actors: the pair returned
    sin,         \* extract_season_episode_from_filename: the file name
    sret,        \* extract_season_episode_from_filename: the pair returned
    lin,         \* detect_studio_from_logo: the image and the logo files
    lret,        \* detect_studio_from_logo: the studio returned
    tin,         \* search_tmdb_multilang: the query and TMDb's responses
    tret,        \* search_tmdb_multilang: the pair returned, with the requests made
    fin,         \* detect_*_in_frames: the frames of one file
    fret,        \* detect_*_in_frames: the lists returned
    now,         \* pool workers: the wall clock, in ticks
    tmp,         \* pool workers: TEMP_DIR, directory name -> owner of its frame file
    wk           \* pool workers: video index -> [at, temp_dir] of its worker

fsVars == <<fs, backup, lastMoves, lastOp>>
restoreVars == <<restored, errors, nRestores>>
batchVars == <<video_files, ident, config, stats, results, nextTask, running,
               ready, bstate>>

pipeVars == <<pin, pc, content_results, issued, p_result, p_is_movie, detected, temp_dir, ret>>
actorVars == <<ain, aret>>
seasonVars == <<sin, sret>>
logoVars == <<lin, lret>>
tmdbVars == <<tin, tret>>
frameVars == <<fin, fret>>
tempVars == <<now, tmp, wk>>

vars == <<fsVars, restoreVars, batchVars, pipeVars, actorVars, seasonVars, logoVars, tmdbVars, frameVars, tempVars>>
placeVars == <<fsVars, restoreVars>>
notPlaceVars == <<batchVars, pipeVars, actorVars, seasonVars, logoVars, tmdbVars, frameVars, tempVars>>
notBatchVars == <<restoreVars, pipeVars, actorVars, seasonVars, logoVars, tmdbVars, frameVars, tempVars>>
notPipeVars == <<fsVars, restoreVars, batchVars, actorVars, seasonVars, logoVars, tmdbVars, frameVars, tempVars>>
notActorVars == <<fsVars, restoreVars, batchVars, pipeVars, seasonVars, logoVars, tmdbVars, frameVars, tempVars>>
notSeasonVars == <<fsVars, restoreVars, batchVars, pipeVars, actorVars, logoVars, tmdbVars, frameVars, tempVars>>
notLogoVars == <<fsVars, restoreVars, batchVars, pipeVars, actorVars, seasonVars, tmdbVars, frameVars, tempVars>>
notTmdbVars == <<fsVars, restoreVars, batchVars, pipeVars, actorVars, seasonVars, logoVars, frameVars, tempVars>>
notFrameVars == <<fsVars, restoreVars, batchVars, pipeVars, actorVars, seasonVars, logoVars,
                  tmdbVars, tempVars>>

-----------------------------------------------------------------------------
(* Bounds *)

NFiles == 3
MaxLog == 3
MaxRestores == 1

-----------------------------------------------------------------------------
(* Python values *)

NoneNum == -1          \* None where an int is expected
NoneStr == <<"None">>  \* None where a str is expected
NoneInfo == [none |-> TRUE]

Get(d, k, default) == IF k \in DOMAIN d THEN d[k] ELSE default

Last(s) == s[Len(s)]
Front(s) == SubSeq(s, 1, Len(s) - 1)

\* s[:n]
Prefix(s, n) == SubSeq(s, 1, IF n < Len(s) THEN n ELSE Len(s))

Range(s) == {s[i] : i \in 1..Len(s)}

\* s.startswith(prefix)
StartsWith(s, prefix) ==
    Len(s) >= Len(prefix) /\ SubSeq(s, 1, Len(prefix)) = prefix

-----------------------------------------------------------------------------
(* os.path *)

Exts == {".mp4", ".MP4", ".mkv", ".txt"}

LowerTok(t) == IF t = ".MP4" THEN ".mp4" ELSE t

Lower(s) == [i \in 1..Len(s) |-> LowerTok(s[i])]

\* index of the last "/" of p, 0 when there is none
LastSep(p) ==
    LET idx == {i \in 1..Len(p) : p[i] = "/"}
    IN IF idx = {} THEN 0 ELSE CHOOSE i \in idx : \A j \in idx : j <= i

basename(p) == SubSeq(p, LastSep(p) + 1, Len(p))

\* os.path.splitext: <<root, ext>>; the extension is the last token of the
\* last component when that token is an extension and not the whole component
splitext(p) ==
    IF Len(p) > LastSep(p) + 1 /\ Last(p) \in Exts
    THEN <<Front(p), <<Last(p)>>>>
    ELSE <<p, <<>>>>

join2(a, b) == a \o <<"/">> \o b

exists(f, p) == p \in DOMAIN f

-----------------------------------------------------------------------------
(* utils.py *)

InvalidChars == {"<", ">", ":", "\"", "/", "\\", "|", "?", "*"}

MaxNameLen == 240
CutNameLen == 236

IsValidChar(c) == c \notin InvalidChars

sanitize_filename(filename) ==
    LET f == SelectSeq(filename, IsValidChar)
    IN IF Len(f) > MaxNameLen
       THEN Prefix(splitext(f)[1], CutNameLen) \o splitext(f)[2]
       ELSE f

Separators == {".", "_", "-"}

CommonTerms ==
    {"Latino", "Castellano", "ESP", "LAT", "Subtitulado", "Subs", "Temporada",
     "Capitulo", "Cap", "Temp", "T", "E", "S", "Serie", "Completa", "Saga",
     "Season", "Episode", "Complete", "HDTV", "BluRay", "BRRip", "DVDRip",
     "WEBRip", "XviD", "MP4", "x264", "x265", "HEVC", "AAC", "AC3", "Rip",
     "Screener", "CAM", "TS", "HD", "FHD", "UHD", "4K"}

IsNotCommonTerm(t) == t \notin CommonTerms

\* clean_filename on names without bracketed tags, leading articles or runs
\* of blanks: the extension is dropped, separators become blanks and the
\* tokens that are common terms are removed
clean_filename(filename) ==
    LET name == splitext(filename)[1]
        spaced == [i \in 1..Len(name) |->
                      IF name[i] \in Separators THEN " " ELSE name[i]]
    IN SelectSeq(spaced, IsNotCommonTerm)

\* number of characters of a token
TokChars(t) ==
    CASE t = "A251" -> 251
      [] t = "YYYYMMDD_HHMMSS" -> 15
      [] t \in Exts -> 4
      [] OTHER -> 1

RECURSIVE CharLen(_)
CharLen(s) == IF s = <<>> THEN 0 ELSE TokChars(s[1]) + CharLen(Tail(s))

\* the longest file name component the file system accepts
NameMax == 255

\* os.makedirs(path) raises OSError when the component is longer
MakedirsRaises(component) == CharLen(component) > NameMax

-----------------------------------------------------------------------------
(* shutil.move(src, dst) on regular files: src is renamed to dst and a file *)
(* already stored at dst is replaced.                                       *)

ShutilMove(f, src, dst) ==
    [p \in (DOMAIN f \ {src}) \cup {dst} |-> IF p = dst THEN f[src] ELSE f[p]]

-----------------------------------------------------------------------------
(* files_ops.py *)

Now == <<"ts">>

\* the row as written: the timestamp column is added when the data has none
append_to_backup(log, data) ==
    Append(log, [k \in DOMAIN data \cup {"timestamp"} |->
                    IF k \in DOMAIN data THEN data[k] ELSE Now])

\* safe_move_file that returns True also when shutil.move raised
safe_move_file_AlwaysTrue(f, source_path, dest_path, moveOk) ==
    IF ~exists(f, source_path)
    THEN [ret |-> FALSE, fs |-> f, moves |-> <<>>]
    ELSE LET dest == IF exists(f, dest_path)
                     THEN splitext(dest_path)[1] \o <<"_duplicado">>
                              \o splitext(dest_path)[2]
                     ELSE dest_path
         IN IF moveOk
            THEN [ret |-> TRUE, fs |-> ShutilMove(f, source_path, dest),
                  moves |-> << <<source_path, dest, TRUE>> >>]
            ELSE [ret |-> TRUE, fs |-> f,
                  moves |-> << <<source_path, dest, FALSE>> >>]

\* returns [ret, fs, moves]; moveOk: shutil.move does not raise
safe_move_file(f, source_path, dest_path, moveOk) ==
    IF ~exists(f, source_path)
    THEN [ret |-> FALSE, fs |-> f, moves |-> <<>>]
    ELSE LET dest == IF exists(f, dest_path)
                     THEN splitext(dest_path)[1] \o <<"_duplicado">>
                              \o splitext(dest_path)[2]
                     ELSE dest_path
         IN IF moveOk
            THEN [ret |-> TRUE, fs |-> ShutilMove(f, source_path, dest),
                  moves |-> << <<source_path, dest, TRUE>> >>]
            ELSE [ret |-> FALSE, fs |-> f,
                  moves |-> << <<source_path, dest, FALSE>> >>]

create_movie_path(base_dir, title, year, quality, extension) ==
    LET safe_title == sanitize_filename(title)
        folder_name == safe_title \o <<" (">> \o year \o <<")">>
        file_name == safe_title \o <<" (">> \o year \o <<") [">> \o quality
                         \o <<"]">> \o extension
        movie_dir == join2(join2(base_dir, <<"Movies">>), folder_name)
    IN <<movie_dir, join2(movie_dir, file_name)>>

DigitTok(d) == <<"0", "1", "2", "3", "4", "5", "6", "7", "8", "9">>[d + 1]

RECURSIVE Dec(_)
Dec(n) == IF n < 10 THEN <<DigitTok(n)>> ELSE Dec(n \div 10) \o <<DigitTok(n % 10)>>

\* f"{n:02d}" for n >= 0
Fmt02(n) == IF n < 10 THEN <<"0">> \o Dec(n) ELSE Dec(n)

\* create_tv_path that formats season and episode without the zero padding
create_tv_path_NoPad(base_dir, title, year, season, episode, quality, extension) ==
    LET safe_title == sanitize_filename(title)
        season_str == Dec(season)
        episode_str == Dec(episode)
        series_folder == safe_title \o <<" (">> \o year \o <<")">>
        season_folder == <<"Season ">> \o season_str
        file_name == safe_title \o <<" S">> \o season_str \o <<"E">> \o episode_str
                         \o <<" [">> \o quality \o <<"]">> \o extension
        season_dir == join2(join2(join2(base_dir, <<"Shows">>), series_folder),
                            season_folder)
    IN <<season_dir, join2(season_dir, file_name)>>

create_tv_path(base_dir, title, year, season, episode, quality, extension) ==
    LET safe_title == sanitize_filename(title)
        season_str == Fmt02(season)
        episode_str == Fmt02(episode)
        series_folder == safe_title \o <<" (">> \o year \o <<")">>
        season_folder == <<"Season ">> \o season_str
        file_name == safe_title \o <<" S">> \o season_str \o <<"E">> \o episode_str
                         \o <<" [">> \o quality \o <<"]">> \o extension
        season_dir == join2(join2(join2(base_dir, <<"Shows">>), series_folder),
                            season_folder)
    IN <<season_dir, join2(season_dir, file_name)>>

\* create_studio_path that uses the studio name as it is
create_studio_path_Raw(base_dir, studio_name, original_filename) ==
    LET studio_folder == IF studio_name = NoneStr \/ studio_name = <<>>
                         THEN <<"SinCadenaTelevisiva">>
                         ELSE studio_name
        studio_dir == join2(join2(base_dir, <<"ByStudio">>), studio_folder)
    IN <<studio_dir, join2(studio_dir, original_filename)>>

create_studio_path(base_dir, studio_name, original_filename) ==
    LET studio_folder == IF studio_name = NoneStr \/ studio_name = <<>>
                         THEN <<"SinCadenaTelevisiva">>
                         ELSE sanitize_filename(studio_name)
        studio_dir == join2(join2(base_dir, <<"ByStudio">>), studio_folder)
    IN <<studio_dir, join2(studio_dir, original_filename)>>

\* info.get(key, '')[:4] if info.get(key) else 'Unknown'
YearOf(info, key) ==
    IF Get(info, key, <<>>) \notin {<<>>, NoneStr}
    THEN Prefix(info[key], 4)
    ELSE <<"Unknown">>

\* the try block of process_file_operation up to the destination:
\* [exc |-> TRUE] when it raises, else [exc |-> FALSE, dest_file |-> path]
DestOf(source_path, result_info, output_dir) ==
    LET original_filename == basename(source_path)
        extension == Lower(splitext(original_filename)[2])
        quality == Get(result_info, "quality", <<"Unknown">>)
    IN IF Get(result_info, "identificado", FALSE)
       THEN IF Get(result_info, "es_pelicula", FALSE)
            THEN LET info == result_info["info"]
                     title == Get(info, "title", <<"Unknown">>)
                 IN IF info = NoneInfo \/ title = NoneStr
                    THEN [exc |-> TRUE]
                    ELSE [exc |-> FALSE,
                          dest_file |-> create_movie_path(output_dir, title,
                              YearOf(info, "release_date"), quality, extension)[2]]
            ELSE LET info == result_info["info"]
                     title == Get(info, "name", <<"Unknown">>)
                     season == Get(result_info, "season", 1)
                     episode == Get(result_info, "episode", 1)
                 IN IF info = NoneInfo \/ title = NoneStr
                       \/ season = NoneNum \/ episode = NoneNum
                    THEN [exc |-> TRUE]
                    ELSE [exc |-> FALSE,
                          dest_file |-> create_tv_path(output_dir, title,
                              YearOf(info, "first_air_date"), season, episode,
                              quality, extension)[2]]
       ELSE LET studios == Get(result_info, "detected_studios", <<>>)
                studio == IF studios # <<>> THEN studios[1] ELSE NoneStr
            IN [exc |-> FALSE,
                dest_file |-> create_studio_path(output_dir, studio,
                                                 original_filename)[2]]

Row(nombre_original, ruta_original, nombre_nuevo, ruta_nueva, status) ==
    [nombre_original |-> nombre_original, ruta_original |-> ruta_original,
     nombre_nuevo |-> nombre_nuevo, ruta_nueva |-> ruta_nueva, status |-> status]

\* process_file_operation whose missing-source branch returns without logging
pfo_NoRowOnMissing(f, log, source_path, result_info, output_dir, moveOk) ==
    IF ~exists(f, source_path)
    THEN [fs |-> f, log |-> log,
          result |-> Row(basename(source_path), source_path, <<>>, <<>>,
                         "error_origen"),
          moves |-> <<>>]
    ELSE LET d == DestOf(source_path, result_info, output_dir)
         IN IF d.exc
            THEN LET result == Row(basename(source_path), source_path, <<>>, <<>>,
                                   "error: TypeError")
                 IN [fs |-> f, log |-> append_to_backup(log, result),
                     result |-> result, moves |-> <<>>]
            ELSE LET mv == safe_move_file(f, source_path, d.dest_file, moveOk)
                     result == Row(basename(source_path), source_path,
                                   basename(d.dest_file), d.dest_file,
                                   IF mv.ret THEN "success" ELSE "error_mover")
                 IN [fs |-> mv.fs, log |-> append_to_backup(log, result),
                     result |-> result, moves |-> mv.moves]

\* returns [fs, log, result, moves]
process_file_operation(f, log, source_path, result_info, output_dir, moveOk) ==
    IF ~exists(f, source_path)
    THEN LET result == Row(basename(source_path), source_path, <<>>, <<>>,
                           "error_origen")
         IN [fs |-> f, log |-> append_to_backup(log, result), result |-> result,
             moves |-> <<>>]
    ELSE LET original_filename == basename(source_path)
             d == DestOf(source_path, result_info, output_dir)
         IN IF d.exc
            THEN LET result == Row(original_filename, source_path, <<>>, <<>>,
                                   "error: TypeError")
                 IN [fs |-> f, log |-> append_to_backup(log, result),
                     result |-> result, moves |-> <<>>]
            ELSE LET mv == safe_move_file(f, source_path, d.dest_file, moveOk)
                     result == Row(original_filename, source_path,
                                   basename(d.dest_file), d.dest_file,
                                   IF mv.ret THEN "success" ELSE "error_mover")
                 IN [fs |-> mv.fs, log |-> append_to_backup(log, result),
                     result |-> result, moves |-> mv.moves]

\* RestoreRow without the status test
RestoreRow_AnyStatus(st, row, moveOk) ==
    IF exists(st.fs, row.ruta_nueva)
    THEN IF moveOk
         THEN [fs |-> ShutilMove(st.fs, row.ruta_nueva, row.ruta_original),
               restored |-> st.restored + 1, errors |-> st.errors,
               moves |-> Append(st.moves, <<row.ruta_nueva, row.ruta_original, TRUE>>)]
         ELSE [fs |-> st.fs, restored |-> st.restored, errors |-> st.errors + 1,
               moves |-> Append(st.moves, <<row.ruta_nueva, row.ruta_original, FALSE>>)]
    ELSE st

\* one row of the loop of restore_from_backup; st = [fs, restored, errors, moves]
RestoreRow(st, row, moveOk) ==
    IF row.status = "success" /\ exists(st.fs, row.ruta_nueva)
    THEN IF moveOk
         THEN [fs |-> ShutilMove(st.fs, row.ruta_nueva, row.ruta_original),
               restored |-> st.restored + 1, errors |-> st.errors,
               moves |-> Append(st.moves, <<row.ruta_nueva, row.ruta_original, TRUE>>)]
         ELSE [fs |-> st.fs, restored |-> st.restored, errors |-> st.errors + 1,
               moves |-> Append(st.moves, <<row.ruta_nueva, row.ruta_original, FALSE>>)]
    ELSE st

\* the rows in the order restore_from_backup handles them
RestoreOrder(log) == log

RECURSIVE RestoreRows(_, _, _, _)
RestoreRows(st, rows, i, failing) ==
    IF i > Len(rows) THEN st
    ELSE RestoreRows(RestoreRow(st, rows[i], i \notin failing), rows, i + 1, failing)

\* failing: the positions (in handling order) whose shutil.move raises
restore_from_backup(f, log, failing) ==
    RestoreRows([fs |-> f, restored |-> 0, errors |-> 0, moves |-> <<>>],
                RestoreOrder(log), 1, failing)

-----------------------------------------------------------------------------
(* Inputs of the placement model *)

SrcDir(i) == IF i % 2 = 1 THEN "a" ELSE "b"

\* the i-th video of the input directory: in/a/v1.mp4, in/b/v1.mp4, in/a/v2.mp4, ...
SrcPath(i) == <<"in", "/", SrcDir(i), "/", "v", DigitTok((i + 1) \div 2), ".mp4">>

\* process_directory passes the processed directory as output_dir
OutputDir == <<"in">>

MissingPath == <<"in", "/", "a", "/", "gone", ".mp4">>

Title1 == <<"T", "1">>
Title1Colon == <<"T", ":", "1">>
Date1 == <<"2", "0", "2", "0", "-", "0", "5", "-", "0", "1">>
Quality1 == <<"1080p">>
Studio1 == <<"HBO">>

MovieResult(title) ==
    [identificado |-> TRUE, es_pelicula |-> TRUE,
     info |-> [title |-> title, release_date |-> Date1],
     quality |-> Quality1, season |-> NoneNum, episode |-> NoneNum,
     detected_studios |-> <<>>, detected_actors |-> <<>>]

SeriesResult(name, season, episode) ==
    [identificado |-> TRUE, es_pelicula |-> FALSE,
     info |-> [name |-> name, first_air_date |-> Date1],
     quality |-> Quality1, season |-> season, episode |-> episode,
     detected_studios |-> <<>>, detected_actors |-> <<>>]

UnmatchedResult(studios) ==
    [identificado |-> FALSE, info |-> NoneInfo, quality |-> Quality1,
     detected_studios |-> studios, detected_actors |-> <<>>,
     mensaje |-> <<"No se pudo identificar">>]

InvalidResult ==
    [identificado |-> FALSE, info |-> NoneInfo,
     mensaje |-> <<"Archivo invalido o no existe">>]

ErrorResult ==
    [identificado |-> FALSE, info |-> NoneInfo,
     mensaje |-> <<"Error", ": ", "exception">>]

PlaceResults ==
    {MovieResult(Title1), MovieResult(Title1Colon), MovieResult(NoneStr),
     SeriesResult(Title1, 1, 2), UnmatchedResult(<<>>), UnmatchedResult(<<Studio1>>)}

-----------------------------------------------------------------------------
(* Placement and restore on one backup log *)

InitPlace ==
    /\ fs = [p \in {SrcPath(i) : i \in 1..NFiles} |->
                CHOOSE i \in 1..NFiles : SrcPath(i) = p]
    /\ backup = <<>>
    /\ lastMoves = <<>>
    /\ restored = 0
    /\ errors = 0
    /\ lastOp = "init"
    /\ nRestores = 0
    /\ video_files = <<>>
    /\ ident = <<>>
    /\ config = [debug |-> TRUE, rename_files |-> TRUE, output_language |-> "en"]
    /\ stats = [total |-> 0, procesados |-> 0, identificados |-> 0,
                no_identificados |-> 0, errores |-> 0]
    /\ results = <<>>
    /\ nextTask = 1
    /\ running = <<>>
    /\ ready = <<>>
    /\ bstate = "idle"
    /\ pin = <<>>
    /\ pc = "idle"
    /\ content_results = <<>>
    /\ issued = <<>>
    /\ p_result = NoneInfo
    /\ p_is_movie = NoneInfo
    /\ detected = <<>>
    /\ temp_dir = <<>>
    /\ ret = NoneInfo
    /\ ain = <<>>
    /\ aret = <<>>
    /\ sin = <<>>
    /\ sret = <<>>
    /\ lin = <<>>
    /\ lret = <<>>
    /\ tin = <<>>
    /\ tret = <<>>
    /\ fin = <<>>
    /\ fret = <<>>
    /\ now = 0
    /\ tmp = <<>>
    /\ wk = <<>>

\* process_file_operation(source_path, result_info, output_dir, backup_file)
PlaceFile(source_path, result_info, moveOk) ==
    /\ Len(backup) < MaxLog
    /\ LET r == process_file_operation(fs, backup, source_path, result_info,
                                       OutputDir, moveOk)
       IN /\ fs' = r.fs
          /\ backup' = r.log
          /\ lastMoves' = r.moves
    /\ lastOp' = "place"
    /\ UNCHANGED <<restored, errors, nRestores, notPlaceVars>>

\* restore_from_backup(backup_file)
Restore(failing) ==
    /\ nRestores < MaxRestores
    /\ backup # <<>>
    /\ LET r == restore_from_backup(fs, backup, failing)
       IN /\ fs' = r.fs
          /\ restored' = r.restored
          /\ errors' = r.errors
          /\ lastMoves' = r.moves
    /\ lastOp' = "restore"
    /\ nRestores' = nRestores + 1
    /\ UNCHANGED <<backup, notPlaceVars>>

NextPlace ==
    \/ \E source_path \in DOMAIN fs \cup {MissingPath}, result_info \in PlaceResults,
          moveOk \in BOOLEAN :
          PlaceFile(source_path, result_info, moveOk)
    \/ \E failing \in SUBSET (1..Len(backup)) : Restore(failing)

SpecPlace == InitPlace /\ [][NextPlace]_vars

\* placement and restore of a directory whose videos are all identified as
\* the same movie: every placement has the same destination file
NextSameTitle ==
    \/ \E source_path \in DOMAIN fs \cup {MissingPath}, moveOk \in BOOLEAN :
          PlaceFile(source_path, MovieResult(Title1), moveOk)
    \/ \E failing \in SUBSET (1..Len(backup)) : Restore(failing)

SpecSameTitle == InitPlace /\ [][NextSameTitle]_vars

-----------------------------------------------------------------------------
(* Claims about placement and restore *)

Contents(f) == {f[p] : p \in DOMAIN f}

SuccessRows(log) == {i \in 1..Len(log) : log[i].status = "success"}

\* C1: placements of distinct source files with one common destination never
\* overwrite a file: after N such placements all the files still exist.
C1_NoOverwrite ==
    ( /\ nRestores = 0
      /\ backup # <<>>
      /\ \A i \in 1..Len(backup) :
            /\ backup[i].status = "success"
            /\ backup[i].ruta_nueva = backup[1].ruta_nueva
            /\ backup[i].ruta_original \in {SrcPath(k) : k \in 1..NFiles}
      /\ \A i, j \in 1..Len(backup) :
            i # j => backup[i].ruta_original # backup[j].ruta_original )
    => Cardinality(Contents(fs)) = NFiles

\* the file system after the first k recorded moves, from f
RECURSIVE Replay(_, _, _)
Replay(f, moves, k) ==
    IF k = 0 THEN f
    ELSE LET g == Replay(f, moves, k - 1)
         IN IF moves[k][3] THEN ShutilMove(g, moves[k][1], moves[k][2]) ELSE g

OkMoves(moves) == {k \in 1..Len(moves) : moves[k][3]}

\* C4: restore_from_backup calls move only for a row with status success whose
\* new path exists when the row is handled; a skipped row is no error; rows
\* with another status move nothing; the return value counts the moves done.
C4_RestoreOnlySuccess ==
    [][ nRestores' # nRestores =>
          /\ \A k \in 1..Len(lastMoves') :
                /\ \E i \in SuccessRows(backup) :
                      /\ lastMoves'[k][1] = backup[i].ruta_nueva
                      /\ lastMoves'[k][2] = backup[i].ruta_original
                /\ exists(Replay(fs, lastMoves', k - 1), lastMoves'[k][1])
          /\ fs' = Replay(fs, lastMoves', Len(lastMoves'))
          /\ restored' = Cardinality(OkMoves(lastMoves'))
          /\ errors' = Len(lastMoves') - Cardinality(OkMoves(lastMoves'))
          /\ (SuccessRows(backup) = {} => fs' = fs /\ restored' = 0)
      ]_placeVars

\* a restore that moved a file, skipped a success row whose new path was
\* missing, and met a row with another status
C4_Witness ==
    /\ lastOp = "restore"
    /\ restored >= 1
    /\ errors = 0
    /\ Cardinality(SuccessRows(backup)) > Len(lastMoves)
    /\ \E i \in 1..Len(backup) : backup[i].status # "success"

\* C5: restore handles the success rows last-appended first, so a file moved
\* A -> B by an earlier row and B -> C by a later row is back at A afterwards.
C5_ChainBackAtOrigin ==
    ( /\ lastOp = "restore"
      /\ errors = 0
      /\ Len(backup) = 2
      /\ backup[1].status = "success" /\ backup[2].status = "success"
      /\ backup[2].ruta_original = backup[1].ruta_nueva
      /\ backup[2].ruta_nueva # backup[1].ruta_nueva )
    => exists(fs, backup[1].ruta_original)

-----------------------------------------------------------------------------
(* process.py: process_batch *)

MaxProcesses == 2

VideoExtensions == {".mp4", ".mkv", ".mov", ".avi"}

\* is_valid_video: a known extension, a regular readable file
is_valid_video(f, filepath) ==
    /\ splitext(filepath)[2] # <<>>
    /\ Lower(splitext(filepath)[2])[1] \in VideoExtensions
    /\ exists(f, filepath)

\* the directory name process_single_video builds for its temporary files
TempDirName(original_filename) ==
    clean_filename(original_filename) \o <<"_", "YYYYMMDD_HHMMSS">>

\* process_single_video as process_batch sees it: [raised |-> TRUE] when the
\* call raises, else [raised |-> FALSE, result |-> the dict returned];
\* found: the dict the identification steps produce for this video
process_single_video(f, filepath, found) ==
    IF ~exists(f, filepath) \/ ~is_valid_video(f, filepath)
    THEN [raised |-> FALSE, result |-> InvalidResult]
    ELSE IF MakedirsRaises(TempDirName(basename(filepath)))
         THEN [raised |-> TRUE]
         ELSE [raised |-> FALSE, result |-> found]

\* the counters when every unmatched result with a message counts as an error
UpdateStats_ErrorForUnmatched(st, result) ==
    LET s1 == [st EXCEPT !.procesados = @ + 1]
    IN IF result.identificado
       THEN [s1 EXCEPT !.identificados = @ + 1]
       ELSE IF "mensaje" \in DOMAIN result
            THEN [s1 EXCEPT !.errores = @ + 1]
            ELSE [s1 EXCEPT !.no_identificados = @ + 1]

\* the counters after one result
UpdateStats(st, result) ==
    LET s1 == [st EXCEPT !.procesados = @ + 1]
    IN IF result.identificado
       THEN [s1 EXCEPT !.identificados = @ + 1]
       ELSE IF "mensaje" \in DOMAIN result
               /\ StartsWith(result.mensaje, <<"Error">>)
            THEN [s1 EXCEPT !.errores = @ + 1]
            ELSE [s1 EXCEPT !.no_identificados = @ + 1]

\* the file operation of one loop iteration: [fs, log, result, moves]
FileOperation(f, log, video, result, moveOk) ==
    IF config.rename_files
    THEN process_file_operation(f, log, video, result, OutputDir, moveOk)
    ELSE LET file_op_result == Row(basename(video), video, <<>>, <<>>, "no_action")
         IN [fs |-> f, log |-> append_to_backup(log, file_op_result),
             result |-> file_op_result, moves |-> <<>>]

\* the videos a batch can hold: a file with a 251-character name
LongPath(i) == <<"in", "/", "d", DigitTok(i), "/", "A251", ".mp4">>

BatchResults ==
    {MovieResult(Title1), MovieResult(NoneStr), ErrorResult}

\* a video of the batch: its path, whether the file is still there when the
\* batch starts, and what identification finds for it
VideoKinds(i) ==
    {[path |-> SrcPath(i), present |-> TRUE, found |-> r] : r \in BatchResults}
    \cup {[path |-> SrcPath(i), present |-> FALSE, found |-> UnmatchedResult(<<>>)],
          [path |-> LongPath(i), present |-> TRUE, found |-> UnmatchedResult(<<>>)]}

InitBatch ==
    \E kinds \in [1..NFiles -> UNION {VideoKinds(i) : i \in 1..NFiles}],
       debug \in BOOLEAN, rename_files \in BOOLEAN :
        /\ \A i \in 1..NFiles : kinds[i] \in VideoKinds(i)
        /\ video_files = [i \in 1..NFiles |-> kinds[i].path]
        /\ ident = [i \in 1..NFiles |-> kinds[i].found]
        /\ fs = [p \in {kinds[i].path : i \in {j \in 1..NFiles : kinds[j].present}} |->
                    CHOOSE i \in 1..NFiles : kinds[i].path = p]
        /\ config = [debug |-> debug, rename_files |-> rename_files,
                     output_language |-> "en"]
        /\ stats = [total |-> NFiles, procesados |-> 0, identificados |-> 0,
                    no_identificados |-> 0, errores |-> 0]
        /\ backup = <<>>
        /\ lastMoves = <<>>
        /\ lastOp = "init"
        /\ results = <<>>
        /\ nextTask = 1
        /\ running = <<>>
        /\ ready = <<>>
        /\ bstate = "running"
        /\ restored = 0
        /\ errors = 0
        /\ nRestores = 0
        /\ pin = <<>>
        /\ pc = "idle"
        /\ content_results = <<>>
        /\ issued = <<>>
        /\ p_result = NoneInfo
        /\ p_is_movie = NoneInfo
        /\ detected = <<>>
        /\ temp_dir = <<>>
        /\ ret = NoneInfo
        /\ ain = <<>>
        /\ aret = <<>>
        /\ sin = <<>>
        /\ sret = <<>>
        /\ lin = <<>>
        /\ lret = <<>>
        /\ tin = <<>>
        /\ tret = <<>>
        /\ fin = <<>>
        /\ fret = <<>>
        /\ now = 0
        /\ tmp = <<>>
        /\ wk = <<>>

\* the body of either loop after process_single_video returned `out` for the
\* loop's current result, applied to `video`
LoopBody(video, out, moveOk) ==
    IF out.raised
    THEN /\ bstate' = "raised"
         /\ UNCHANGED <<fs, backup, lastMoves, lastOp, stats, results>>
    ELSE LET op == FileOperation(fs, backup, video, out.result, moveOk)
         IN /\ stats' = UpdateStats(stats, out.result)
            /\ fs' = op.fs
            /\ backup' = op.log
            /\ lastMoves' = op.moves
            /\ lastOp' = "place"
            /\ results' = Append(results, <<out.result, op.result>>)
            /\ UNCHANGED bstate

\* debug mode: one iteration of `for video in video_files`
DebugIter(moveOk) ==
    /\ bstate = "running"
    /\ config.debug
    /\ Len(results) < Len(video_files)
    /\ LET video == video_files[Len(results) + 1]
       IN LoopBody(video,
                   process_single_video(fs, video, ident[Len(results) + 1]),
                   moveOk)
    /\ UNCHANGED <<video_files, ident, config, nextTask, running, ready, notBatchVars>>

\* pool: a free worker takes the next video and starts process_single_video
PoolStart ==
    /\ bstate = "running"
    /\ ~config.debug
    /\ nextTask <= Len(video_files)
    /\ Cardinality(DOMAIN running) < MaxProcesses
    /\ running' = [i \in DOMAIN running \cup {nextTask} |->
                      IF i = nextTask
                      THEN process_single_video(fs, video_files[i], ident[i])
                      ELSE running[i]]
    /\ nextTask' = nextTask + 1
    /\ UNCHANGED <<fsVars, video_files, ident, config, stats, results, ready, bstate,
                   notBatchVars>>

\* pool: worker i finishes; imap_unordered queues its outcome
WorkerFinish(i) ==
    /\ bstate = "running"
    /\ i \in DOMAIN running
    /\ ready' = Append(ready, running[i])
    /\ running' = [j \in DOMAIN running \ {i} |-> running[j]]
    /\ UNCHANGED <<fsVars, video_files, ident, config, stats, results, nextTask, bstate,
                   notBatchVars>>

\* pooled mode: one iteration of `for result in results_iter`
PoolConsume(moveOk) ==
    /\ bstate = "running"
    /\ ~config.debug
    /\ ready # <<>>
    /\ LET video_idx == (stats.procesados + 1) - 1
       IN IF ~ready[1].raised /\ ~(video_idx < Len(video_files))
          THEN /\ stats' = UpdateStats(stats, ready[1].result)
               /\ UNCHANGED <<fsVars, results, bstate>>
          ELSE LoopBody(video_files[video_idx + 1], ready[1], moveOk)
    /\ ready' = Tail(ready)
    /\ UNCHANGED <<video_files, ident, config, nextTask, running, notBatchVars>>

\* process_batch returns stats
BatchReturn ==
    /\ bstate = "running"
    /\ IF config.debug
       THEN Len(results) = Len(video_files)
       ELSE nextTask > Len(video_files) /\ DOMAIN running = {} /\ ready = <<>>
    /\ bstate' = "returned"
    /\ UNCHANGED <<fsVars, video_files, ident, config, stats, results, nextTask,
                   running, ready, notBatchVars>>

\* the process dies inside process_file_operation of the current iteration,
\* after safe_move_file returned and before append_to_backup
CrashAfterMove ==
    /\ bstate = "running"
    /\ config.rename_files
    /\ IF config.debug THEN Len(results) < Len(video_files) ELSE ready # <<>>
    /\ LET video == IF config.debug THEN video_files[Len(results) + 1]
                    ELSE video_files[stats.procesados + 1]
           out == IF config.debug
                  THEN process_single_video(fs, video, ident[Len(results) + 1])
                  ELSE ready[1]
       IN /\ ~out.raised
          /\ exists(fs, video)
          /\ ~DestOf(video, out.result, OutputDir).exc
          /\ LET mv == safe_move_file(fs, video,
                           DestOf(video, out.result, OutputDir).dest_file, TRUE)
             IN /\ fs' = mv.fs
                /\ lastMoves' = mv.moves
          /\ stats' = UpdateStats(stats, out.result)
    /\ lastOp' = "place"
    /\ bstate' = "crashed"
    /\ UNCHANGED <<backup, video_files, ident, config, results, nextTask, running,
                   ready, notBatchVars>>

\* the process dies between two iterations
CrashBetween ==
    /\ bstate = "running"
    /\ bstate' = "crashed"
    /\ UNCHANGED <<fsVars, video_files, ident, config, stats, results, nextTask,
                   running, ready, notBatchVars>>

NextBatch ==
    \/ \E moveOk \in BOOLEAN : DebugIter(moveOk)
    \/ PoolStart
    \/ \E i \in DOMAIN running : WorkerFinish(i)
    \/ \E moveOk \in BOOLEAN : PoolConsume(moveOk)
    \/ BatchReturn
    \/ CrashAfterMove
    \/ CrashBetween

SpecBatch == InitBatch /\ [][NextBatch]_vars

-----------------------------------------------------------------------------
(* Claims about process_batch *)

IndexOf(video) == CHOOSE i \in 1..Len(video_files) : video_files[i] = video

\* C2: in pooled mode the file operation applied to a video uses the result
\* computed for that video, whatever the order in which the workers finish.
C2_ResultOfSameVideo ==
    (bstate # "idle" /\ ~config.debug) =>
        \A k \in 1..Len(results) :
            results[k][1] \in {ident[IndexOf(results[k][2].ruta_original)],
                               InvalidResult}

RowsOf(video) == {k \in 1..Len(backup) : backup[k].ruta_original = video}

C8_MovedFileHasRow ==
    bstate = "crashed" =>
        \A i \in 1..Len(video_files) :
            (\E p \in DOMAIN fs : fs[p] = i /\ p # video_files[i]) =>
                \E k \in RowsOf(video_files[i]) : backup[k].status = "success"

\* C10: process_batch ends having handled every video: procesados = total and
\* every video got its file operation, whatever fails for single videos.
C10_AllVideosHandled ==
    bstate \in {"returned", "raised"} =>
        /\ stats.procesados = stats.total
        /\ Len(results) = Len(video_files)

-----------------------------------------------------------------------------
(* tmdb_api.py: search_by_actors *)

MaxActors == 3
MaxCredits == 2

ActorName(i) == <<"actor", DigitTok(i)>>

TitleIds == {"T1", "T2"}

\* actor_ids: the ids of the actors the person search resolved, in order
RECURSIVE ActorIds(_, _)
ActorIds(actors, person) ==
    IF actors = <<>> THEN <<>>
    ELSE (IF person[Head(actors)] # NoneNum THEN <<person[Head(actors)]>> ELSE <<>>)
         \o ActorIds(Tail(actors), person)

\* all_results: the cast items of every credits response with status 200
RECURSIVE AllResults(_, _)
AllResults(actor_ids, credits) ==
    IF actor_ids = <<>> THEN <<>>
    ELSE (IF credits[Head(actor_ids)].status = 200
          THEN credits[Head(actor_ids)].cast ELSE <<>>)
         \o AllResults(Tail(actor_ids), credits)

\* counter[id]: one count per item of all_results
CounterOf(all_results, id) ==
    Cardinality({k \in 1..Len(all_results) : all_results[k].id = id})

FirstSeen(all_results, id) ==
    CHOOSE k \in 1..Len(all_results) :
        /\ all_results[k].id = id
        /\ \A j \in 1..(k - 1) : all_results[j].id # id

\* counter.most_common()[0][0]: highest count, first inserted among equals
MostCommonId(all_results) ==
    CHOOSE id \in {all_results[k].id : k \in 1..Len(all_results)} :
        \A other \in {all_results[k].id : k \in 1..Len(all_results)} :
            \/ CounterOf(all_results, id) > CounterOf(all_results, other)
            \/ /\ CounterOf(all_results, id) = CounterOf(all_results, other)
               /\ FirstSeen(all_results, id) <= FirstSeen(all_results, other)

\* id_to_info[id]: the last item of all_results with that id
IdToInfo(all_results, id) ==
    all_results[CHOOSE k \in 1..Len(all_results) :
        /\ all_results[k].id = id
        /\ \A j \in (k + 1)..Len(all_results) : all_results[j].id # id]

Min2(n) == IF n < 2 THEN n ELSE 2

NoMatch == [result |-> NoneInfo, is_movie |-> NoneInfo]

\* tmdb: [person, credits, raises]; raises = a request of the call raises
search_by_actors(actors, tmdb, is_series) ==
    IF actors = <<>> THEN NoMatch
    ELSE IF tmdb.raises THEN NoMatch
    ELSE LET actor_ids == ActorIds(actors, tmdb.person)
             all_results == AllResults(actor_ids, tmdb.credits)
         IN IF actor_ids = <<>> THEN NoMatch
            ELSE IF all_results = <<>> THEN NoMatch
            ELSE LET best_id == MostCommonId(all_results)
                     frequency == CounterOf(all_results, best_id)
                 IN IF frequency >= Min2(Len(actor_ids))
                    THEN [result |-> IdToInfo(all_results, best_id),
                          is_movie |-> ~is_series]
                    ELSE NoMatch

\* every sequence over S of length at most n
SeqsUpTo(S, n) == UNION {[1..k -> S] : k \in 0..n}

\* what TMDb knows of one actor: no person found, or a person whose credits
\* request fails, or a person and the title ids of the cast list
ActorKinds ==
    {[resolved |-> FALSE, status |-> 200, titles |-> <<>>],
     [resolved |-> TRUE, status |-> 500, titles |-> <<>>]}
    \cup {[resolved |-> TRUE, status |-> 200, titles |-> t] :
            t \in SeqsUpTo(TitleIds, MaxCredits)}

PersonId(i) == 100 + i

\* an item of data["cast"], with the keys of the movie and of the tv credits
CastItem(id, character) ==
    [id |-> id, character |-> character,
     title |-> <<id, ":", "x">>, release_date |-> Date1,
     name |-> <<id, ":", "x">>, first_air_date |-> Date1]

\* the answers of the API for actors 1..n of the given kinds
TmdbOf(kinds, raises) ==
    [person |-> [a \in {ActorName(i) : i \in DOMAIN kinds} |->
                    LET i == CHOOSE j \in DOMAIN kinds : ActorName(j) = a
                    IN IF kinds[i].resolved THEN PersonId(i) ELSE NoneNum],
     credits |-> [p \in {PersonId(i) : i \in DOMAIN kinds} |->
                    LET i == CHOOSE j \in DOMAIN kinds : PersonId(j) = p
                    IN [status |-> kinds[i].status,
                        cast |-> [k \in 1..Len(kinds[i].titles) |->
                                    CastItem(kinds[i].titles[k], ActorName(i))]]],
     raises |-> raises]

InitActors ==
    /\ \E n \in 0..MaxActors, raises \in BOOLEAN, is_series \in BOOLEAN :
       \E kinds \in [1..n -> ActorKinds] :
          ain = [actors |-> [i \in 1..n |-> ActorName(i)],
                 kinds |-> kinds,
                 tmdb |-> TmdbOf(kinds, raises),
                 is_series |-> is_series]
    /\ aret = <<>>
    /\ sin = <<>>
    /\ sret = <<>>
    /\ lin = <<>>
    /\ lret = <<>>
    /\ tin = <<>>
    /\ tret = <<>>
    /\ fin = <<>>
    /\ fret = <<>>
    /\ now = 0
    /\ tmp = <<>>
    /\ wk = <<>>
    /\ fs = <<>>
    /\ backup = <<>>
    /\ lastMoves = <<>>
    /\ restored = 0
    /\ errors = 0
    /\ lastOp = "init"
    /\ nRestores = 0
    /\ video_files = <<>>
    /\ ident = <<>>
    /\ config = [debug |-> TRUE, rename_files |-> TRUE, output_language |-> "en"]
    /\ stats = [total |-> 0, procesados |-> 0, identificados |-> 0,
                no_identificados |-> 0, errores |-> 0]
    /\ results = <<>>
    /\ nextTask = 1
    /\ running = <<>>
    /\ ready = <<>>
    /\ bstate = "idle"
    /\ pin = <<>>
    /\ pc = "idle"
    /\ content_results = <<>>
    /\ issued = <<>>
    /\ p_result = NoneInfo
    /\ p_is_movie = NoneInfo
    /\ detected = <<>>
    /\ temp_dir = <<>>
    /\ ret = NoneInfo

\* search_by_actors(actors, config, is_series)
SearchByActors ==
    /\ ain # <<>>
    /\ aret = <<>>
    /\ aret' = search_by_actors(ain.actors, ain.tmdb, ain.is_series)
    /\ UNCHANGED <<ain, notActorVars>>

NextActors == SearchByActors

SpecActors == InitActors /\ [][NextActors]_vars

\* the recognized actors whose credit list, as TMDb returns it, holds the title
ActorsCrediting(id) ==
    {i \in 1..Len(ain.actors) :
        /\ ain.kinds[i].resolved
        /\ ain.kinds[i].status = 200
        /\ id \in Range(ain.kinds[i].titles)}

\* C6: search_by_actors returns a title only if the title is in the credit
\* lists of at least min(2, number of recognized actors) distinct actors.
C6_SharedByActors ==
    (aret # <<>> /\ aret.result # NoneInfo)
    => Cardinality(ActorsCrediting(aret.result.id)) >= Min2(Len(ain.actors))

-----------------------------------------------------------------------------
(* tmdb_api.py: search_tmdb_multilang *)

Attempts == 3

\* config["processing"]["output_language"]
OutputLanguage == config.output_language

\* results[0] of a search response in language lang
TmdbItem(is_series, lang, popularity) ==
    IF is_series
    THEN [id |-> 7, name |-> Title1Colon, first_air_date |-> Date1,
          popularity |-> popularity, language |-> lang, detail |-> FALSE]
    ELSE [id |-> 7, title |-> Title1Colon, release_date |-> Date1,
          popularity |-> popularity, language |-> lang, detail |-> FALSE]

\* detail_response.json(): the same title id, fetched with language=en
DetailItem(item) == [item EXCEPT !.language = "en", !.detail = TRUE]

\* what one language's pass of the loop does with best_result; r = the
\* responses of this attempt [es, det, en], each search response one of
\* [kind |-> "error"] (requests.get raises), [kind |-> "bad"] (a status
\* other than 200), [kind |-> "empty"], [kind |-> "hit", popularity |-> n],
\* det (the detail request) one of "ok", "bad", "error".
\* The value is [raised |-> TRUE] or [raised |-> FALSE, best |-> best_result].
LangPass_RetryBad(r, lang, best, is_series) ==
    LET resp == IF lang = "es" THEN r.es ELSE r.en
    IN IF resp.kind \in {"error", "bad"} THEN [raised |-> TRUE, requests |-> 1]
       ELSE IF resp.kind = "empty" THEN [raised |-> FALSE, best |-> best, requests |-> 1]
       ELSE [raised |-> FALSE, best |-> TmdbItem(is_series, lang, resp.popularity),
             requests |-> 1]

LangPass_TieToLast(r, lang, best, is_series) ==
    LET resp == IF lang = "es" THEN r.es ELSE r.en
    IN IF resp.kind = "error" THEN [raised |-> TRUE, requests |-> 1]
       ELSE IF resp.kind \in {"empty", "bad"}
       THEN [raised |-> FALSE, best |-> best, requests |-> 1]
       ELSE IF best = NoneInfo \/ resp.popularity >= best.popularity
            THEN [raised |-> FALSE,
                  best |-> TmdbItem(is_series, lang, resp.popularity),
                  requests |-> 1]
            ELSE [raised |-> FALSE, best |-> best, requests |-> 1]

LangPass(r, lang, best, is_series) ==
    LET resp == IF lang = "es" THEN r.es ELSE r.en
    IN IF resp.kind = "error" THEN [raised |-> TRUE, requests |-> 1]
       ELSE IF resp.kind \in {"empty", "bad"}
       THEN [raised |-> FALSE, best |-> best, requests |-> 1]
       ELSE IF best = NoneInfo \/ resp.popularity > best.popularity
            THEN IF lang # "en" /\ OutputLanguage = "en"
                 THEN IF r.det = "error" THEN [raised |-> TRUE, requests |-> 2]
                      ELSE [raised |-> FALSE,
                            best |-> IF r.det = "ok"
                                     THEN DetailItem(TmdbItem(is_series, lang,
                                                              resp.popularity))
                                     ELSE TmdbItem(is_series, lang, resp.popularity),
                            requests |-> 2]
                 ELSE [raised |-> FALSE,
                       best |-> TmdbItem(is_series, lang, resp.popularity),
                       requests |-> 1]
            ELSE [raised |-> FALSE, best |-> best, requests |-> 1]

\* one call of search_tmdb_multilang with what it costs: requests is the
\* number of requests.get calls made, calls the number of (recursive) calls.
\* responses: one [es, det, en] per attempt made
RECURSIVE TmdbRun(_, _, _, _)
TmdbRun(query, is_series, responses, attempts) ==
    LET r == Head(responses)
        es == LangPass(r, "es", NoneInfo, is_series)
    IN IF es.raised /\ attempts > 1
       THEN LET retry == TmdbRun(query, is_series, Tail(responses), attempts - 1)
            IN [retry EXCEPT !.requests = @ + es.requests, !.calls = @ + 1]
       ELSE LET best1 == IF es.raised THEN NoneInfo ELSE es.best
                en == LangPass(r, "en", best1, is_series)
            IN IF en.raised /\ attempts > 1
               THEN LET retry == TmdbRun(query, is_series, Tail(responses), attempts - 1)
                    IN [retry EXCEPT !.requests = @ + es.requests + en.requests,
                                     !.calls = @ + 1]
               ELSE LET best_result == IF en.raised THEN best1 ELSE en.best
                    IN [result |-> best_result,
                        is_movie |-> IF best_result = NoneInfo THEN NoneInfo
                                     ELSE ~is_series,
                        requests |-> es.requests + en.requests,
                        calls |-> 1]

\* the pair (best_result, result_type) the caller receives
search_tmdb_multilang(query, is_series, responses, attempts) ==
    LET run == TmdbRun(query, is_series, responses, attempts)
    IN [result |-> run.result, is_movie |-> run.is_movie]

-----------------------------------------------------------------------------
(* str methods on token sequences *)

RECURSIVE LStrip(_)
LStrip(s) == IF s # <<>> /\ Head(s) = " " THEN LStrip(Tail(s)) ELSE s

RECURSIVE RStrip(_)
RStrip(s) == IF s # <<>> /\ Last(s) = " " THEN RStrip(Front(s)) ELSE s

\* s.strip()
Strip(s) == RStrip(LStrip(s))

\* s.split(sep): the list of the pieces between the occurrences of sep
RECURSIVE Split(_, _)
Split(s, sep) ==
    IF \A k \in 1..Len(s) : s[k] # sep THEN <<s>>
    ELSE LET k == CHOOSE j \in 1..Len(s) :
                     s[j] = sep /\ \A m \in 1..(j - 1) : s[m] # sep
         IN <<SubSeq(s, 1, k - 1)>> \o Split(SubSeq(s, k + 1, Len(s)), sep)

\* ' '.join(lines)
RECURSIVE JoinSpace(_)
JoinSpace(lines) ==
    IF lines = <<>> THEN <<>>
    ELSE IF Len(lines) = 1 THEN lines[1]
    ELSE lines[1] \o <<" ">> \o JoinSpace(Tail(lines))

-----------------------------------------------------------------------------
(* process.py: process_single_video, statement by statement *)

MaxBlocks == 6
MinFragmentLen == 15
FragmentLimit == 5
BlockLimit == 5

Xs(n) == [i \in 1..n |-> "x"]

\* OCR text as perform_ocr_on_frames returns it: one line, no line break
OcrTexts ==
    {<<>>, Xs(MinFragmentLen), Xs(MinFragmentLen + 1),
     <<" ">> \o Xs(MinFragmentLen) \o <<" ">>}

\* the i-th block of an .srt track: index line, timing line, text line
SrtBlock(i) ==
    <<DigitTok(i), "\n", "00:01", " ", "-->", " ", "00:02", "\n", "hola">>

\* a block whose only line starts with the arrow
ArrowBlock == <<" ", "-->", " ", "x">>

RECURSIVE SrtText(_)
SrtText(n) ==
    IF n = 1 THEN SrtBlock(1) ELSE SrtText(n - 1) \o <<"\n\n">> \o SrtBlock(n)

SubtitleTexts ==
    {<<>>, SrtText(1), ArrowBlock \o <<"\n\n">> \o SrtBlock(2), SrtText(MaxBlocks)}

\* a studio name of the mapping file with a character invalid in file names
StudioSlash == <<"A", "/", "E">>

TxtPath == <<"in", "/", "a", "/", "notes", ".txt">>

PipeFiles == {SrcPath(1), LongPath(1), TxtPath, MissingPath}

\* the responses of TMDb to one call of search_tmdb_multilang
EmptyResponse == [es |-> [kind |-> "empty"], det |-> "ok", en |-> [kind |-> "empty"]]
HitResponse ==
    [es |-> [kind |-> "hit", popularity |-> 5], det |-> "ok",
     en |-> [kind |-> "hit", popularity |-> 5]]
ErrorResponse == [es |-> [kind |-> "error"], det |-> "ok", en |-> [kind |-> "error"]]

PipeResponses ==
    {<<EmptyResponse>>, <<HitResponse>>, <<ErrorResponse, HitResponse>>,
     [k \in 1..Attempts |-> ErrorResponse]}

CreditsT1 == [resolved |-> TRUE, status |-> 200, titles |-> <<"T1">>]
Unresolved == [resolved |-> FALSE, status |-> 200, titles |-> <<>>]

\* the answers of TMDb to one call of search_by_actors for two actors
PipeTmdb ==
    {TmdbOf(<<CreditsT1, CreditsT1>>, FALSE), TmdbOf(<<Unresolved, Unresolved>>, FALSE),
     TmdbOf(<<CreditsT1, CreditsT1>>, TRUE)}

\* fragments: the stripped lines of ocr_text longer than 15 characters
IsFragment(line) == CharLen(Strip(line)) > MinFragmentLen

Fragments(ocr_text) ==
    LET kept == SelectSeq(Split(ocr_text, "\n"), IsFragment)
    IN [k \in 1..Len(kept) |-> Strip(kept[k])]

NotTimingLine(l) == ~(Strip(l) # <<>> /\ Strip(l)[1] = "-->")

\* lines: the lines of a block that do not start with the arrow
BlockLines(block) == SelectSeq(Split(block, "\n"), NotTimingLine)

Blocks(subtitle_text) == Split(subtitle_text, "\n\n")

\* the first pattern of the list, S<n>E<n>, for numbers of one digit
Digits == {"0", "1", "2", "3", "4", "5", "6", "7", "8", "9"}

DigitVal(t) == CHOOSE d \in 0..9 : DigitTok(d) = t

\* re.IGNORECASE: a letter matches in either case.
Lowers == <<"s", "e", "x", "t", "c", "a", "o", "n", "m", "p", "i", "d", "r", "u", "l">>

Uppers == <<"S", "E", "X", "T", "C", "A", "O", "N", "M", "P", "I", "D", "R", "U", "L">>

Up(c) == IF \E k \in 1..Len(Lowers) : Lowers[k] = c THEN Uppers[CHOOSE k \in 1..Len(Lowers) : Lowers[k] = c] ELSE c

\* The least element of a non-empty set of positions: re.search returns the
\* leftmost match.
Leftmost(S) == CHOOSE i \in S : \A m \in S : i <= m

\* (\d+) is greedy: the digit run that starts at position i ends here.
RECURSIVE RunEnd(_, _)
RunEnd(f, i) == IF i < Len(f) /\ f[i + 1] \in Digits THEN RunEnd(f, i + 1) ELSE i

\* int(group): the decimal value of f[i..j].
RECURSIVE Num(_, _, _)
Num(f, i, j) == IF j < i THEN 0 ELSE Num(f, i, j - 1) * 10 + DigitVal(f[j])

\* [^0-9]* then a digit: the first digit after position i, 0 when none.
NextDigit(f, i) ==
    LET later == {m \in (i + 1)..Len(f) : f[m] \in Digits}
    IN IF later = {} THEN 0 ELSE Leftmost(later)

\* The literal word (upper case) stands at position i of f.
LitAt(f, i, word) ==
    /\ i >= 1
    /\ i + Len(word) - 1 <= Len(f)
    /\ \A k \in 1..Len(word) : Up(f[i + k - 1]) = word[k]

\* r'S(\d+)E(\d+)'
Pattern1(f) ==
    LET starts == {i \in 1..Len(f) :
                      /\ Up(f[i]) = "S"
                      /\ i + 1 <= Len(f)
                      /\ f[i + 1] \in Digits
                      /\ LET j == RunEnd(f, i + 1)
                         IN /\ j + 2 <= Len(f)
                            /\ Up(f[j + 1]) = "E"
                            /\ f[j + 2] \in Digits}
    IN IF starts = {} THEN <<>>
       ELSE LET i == Leftmost(starts)
                j == RunEnd(f, i + 1)
            IN <<Num(f, i + 1, j), Num(f, j + 2, RunEnd(f, j + 2))>>

\* r'(\d+)x(\d+)'
Pattern2(f) ==
    LET starts == {i \in 1..Len(f) :
                      /\ f[i] \in Digits
                      /\ LET j == RunEnd(f, i)
                         IN /\ j + 2 <= Len(f)
                            /\ Up(f[j + 1]) = "X"
                            /\ f[j + 2] \in Digits}
    IN IF starts = {} THEN <<>>
       ELSE LET i == Leftmost(starts)
                j == RunEnd(f, i)
            IN <<Num(f, i, j), Num(f, j + 2, RunEnd(f, j + 2))>>

\* r'[^0-9](\d{1,2})(\d{2})[^0-9]': a run of exactly three or four digits
\* between two non-digits; the last two digits are the episode.
Pattern3(f) ==
    LET starts == {i \in 1..Len(f) :
                      /\ f[i] \notin Digits
                      /\ i + 1 <= Len(f)
                      /\ f[i + 1] \in Digits
                      /\ LET j == RunEnd(f, i + 1)
                         IN /\ (j - i) \in {3, 4}
                            /\ j + 1 <= Len(f)}
    IN IF starts = {} THEN <<>>
       ELSE LET i == Leftmost(starts)
                j == RunEnd(f, i + 1)
            IN <<Num(f, i + 1, j - 2), Num(f, j - 1, j)>>

\* r'Season[^0-9]*(\d+)[^0-9]*Episode[^0-9]*(\d+)' and the Spanish
\* r'Temporada[^0-9]*(\d+)[^0-9]*Capitulo[^0-9]*(\d+)'
WordPattern(f, w1, w2) ==
    LET ok(i) == /\ LitAt(f, i, w1)
                 /\ LET k == NextDigit(f, i + Len(w1) - 1)
                    IN /\ k # 0
                       /\ LET j == RunEnd(f, k)
                              m == NextDigit(f, j)
                          IN /\ m # 0
                             /\ \E p \in (j + 1)..(m - Len(w2)) : LitAt(f, p, w2)
        starts == {i \in 1..Len(f) : ok(i)}
    IN IF starts = {} THEN <<>>
       ELSE LET i == Leftmost(starts)
                k == NextDigit(f, i + Len(w1) - 1)
                j == RunEnd(f, k)
                m == NextDigit(f, j)
            IN <<Num(f, k, j), Num(f, m, RunEnd(f, m))>>

\* r'T(\d+)[^0-9]*C(\d+)' and r'Temp(\d+)[^0-9]*Cap(\d+)'
TagPattern(f, w1, w2) ==
    LET ok(i) == /\ LitAt(f, i, w1)
                 /\ i + Len(w1) <= Len(f)
                 /\ f[i + Len(w1)] \in Digits
                 /\ LET j == RunEnd(f, i + Len(w1))
                        m == NextDigit(f, j)
                    IN /\ m # 0
                       /\ m - Len(w2) > j
                       /\ LitAt(f, m - Len(w2), w2)
        starts == {i \in 1..Len(f) : ok(i)}
    IN IF starts = {} THEN <<>>
       ELSE LET i == Leftmost(starts)
                j == RunEnd(f, i + Len(w1))
                m == NextDigit(f, j)
            IN <<Num(f, i + Len(w1), j), Num(f, m, RunEnd(f, m))>>

\* The seven patterns in the order of the list; the first one that matches
\* anywhere in the name decides.
Patterns(f) ==
    << Pattern1(f),
       Pattern2(f),
       Pattern3(f),
       WordPattern(f, <<"S", "E", "A", "S", "O", "N">>, <<"E", "P", "I", "S", "O", "D", "E">>),
       WordPattern(f, <<"T", "E", "M", "P", "O", "R", "A", "D", "A">>, <<"C", "A", "P", "I", "T", "U", "L", "O">>),
       TagPattern(f, <<"T">>, <<"C">>),
       TagPattern(f, <<"T", "E", "M", "P">>, <<"C", "A", "P">>) >>

extract_season_episode_from_filename(filename) ==
    LET found == {n \in 1..7 : Patterns(filename)[n] # <<>>}
    IN IF found = {} THEN <<NoneNum, NoneNum>>
       ELSE Patterns(filename)[Leftmost(found)]

SeasonEpisode_Always(is_movie, filename) ==
    LET se == extract_season_episode_from_filename(filename)
    IN <<IF se[1] = NoneNum THEN 1 ELSE se[1], IF se[2] = NoneNum THEN 1 ELSE se[2]>>

\* step 10, lines 155-166: season and episode stay None for a movie; for a
\* series they come from the file name, 1 where the name gives none
SeasonEpisode(is_movie, filename) ==
    IF is_movie THEN <<NoneNum, NoneNum>>
    ELSE LET se == extract_season_episode_from_filename(filename)
         IN <<IF se[1] = NoneNum THEN 1 ELSE se[1], IF se[2] = NoneNum THEN 1 ELSE se[2]>>

InitPipe ==
    /\ \E filepath \in PipeFiles, subtitles \in SubtitleTexts, frame_text \in OcrTexts,
          faces \in {<<>>, <<ActorName(1), ActorName(2)>>},
          debug \in BOOLEAN, capture_frames \in BOOLEAN, detect_actors \in BOOLEAN,
          detect_studios \in BOOLEAN, libs \in BOOLEAN, peer \in BOOLEAN :
          /\ peer => ~debug
          /\ pin = [filepath |-> filepath,
                    subtitles |-> subtitles,     \* the subtitle track, "" if none
                    frame_text |-> frame_text,   \* the text OCR reads in the frames
                    faces |-> faces,             \* the actors recognized in the frames
                    studios |-> IF faces = <<>> THEN <<>> ELSE <<StudioSlash, Studio1>>,
                    debug |-> debug,
                    capture_frames |-> capture_frames,
                    detect_actors |-> detect_actors,
                    detect_studios |-> detect_studios,
                    libs |-> libs,               \* CV2_AVAILABLE and PYTESSERACT_AVAILABLE
                    peer |-> peer]               \* a pool worker with the same temp_dir
    /\ pc = [at |-> "start", i |-> 0, series |-> FALSE]
    /\ fs = [p \in {SrcPath(1), LongPath(1), TxtPath} |-> 1]
    /\ content_results = <<>>
    /\ issued = <<>>
    /\ p_result = NoneInfo
    /\ p_is_movie = NoneInfo
    /\ detected = [frame_files |-> {}, studios |-> <<>>, actors |-> <<>>]
    /\ temp_dir = [exists |-> FALSE, frames |-> {}]
    /\ ret = NoneInfo
    /\ backup = <<>>
    /\ lastMoves = <<>>
    /\ restored = 0
    /\ errors = 0
    /\ lastOp = "init"
    /\ nRestores = 0
    /\ video_files = <<>>
    /\ ident = <<>>
    /\ config = [debug |-> TRUE, rename_files |-> TRUE, output_language |-> "en"]
    /\ stats = [total |-> 0, procesados |-> 0, identificados |-> 0,
                no_identificados |-> 0, errores |-> 0]
    /\ results = <<>>
    /\ nextTask = 1
    /\ running = <<>>
    /\ ready = <<>>
    /\ bstate = "idle"
    /\ ain = <<>>
    /\ aret = <<>>
    /\ sin = <<>>
    /\ sret = <<>>
    /\ lin = <<>>
    /\ lret = <<>>
    /\ tin = <<>>
    /\ tret = <<>>
    /\ fin = <<>>
    /\ fret = <<>>
    /\ now = 0
    /\ tmp = <<>>
    /\ wk = <<>>

At(step) == [at |-> step, i |-> 0, series |-> FALSE]

original_filename == basename(pin.filepath)

\* the `finally` clause: the tree is removed unless in debug mode
Finally(t) ==
    IF ~pin.debug /\ t.exists THEN [exists |-> FALSE, frames |-> {}] ELSE t

\* lines 39-55: the validity check and the creation of the temp directory
Start ==
    /\ pc.at = "start"
    /\ IF ~exists(fs, pin.filepath) \/ ~is_valid_video(fs, pin.filepath)
       THEN /\ ret' = InvalidResult
            /\ pc' = At("done")
            /\ UNCHANGED temp_dir
       ELSE IF MakedirsRaises(TempDirName(original_filename))
            THEN /\ pc' = At("raised")
                 /\ UNCHANGED <<ret, temp_dir>>
            ELSE /\ pc' = At("analyze")
                 /\ temp_dir' = [exists |-> TRUE, frames |-> {}]
                 /\ UNCHANGED ret
    /\ UNCHANGED <<pin, content_results, issued, p_result, p_is_movie, detected,
                   notPipeVars>>

\* analyze_video_content: the frames extract_frames writes into temp_dir
ExtractedFrames == IF pin.capture_frames /\ pin.libs THEN {"frame_1.png"} ELSE {}

\* lines 60-63: analyze_video_content, which catches its own exceptions
Analyze ==
    /\ pc.at = "analyze"
    /\ LET framed == pin.capture_frames /\ pin.libs
       IN /\ content_results' =
                [subtitles_text |-> pin.subtitles,
                 ocr_text |-> IF framed THEN pin.frame_text ELSE <<>>,
                 quality |-> Quality1]
          /\ temp_dir' = [exists |-> TRUE,
                          frames |-> IF pin.debug THEN ExtractedFrames ELSE {}]
    /\ pc' = [at |-> "name", i |-> 0, series |-> FALSE]
    /\ UNCHANGED <<pin, issued, p_result, p_is_movie, detected, ret, notPipeVars>>

\* the first block from i on, within the limit, that has lines left
RECURSIVE BlockFrom(_, _)
BlockFrom(blocks, i) ==
    IF i > Len(Prefix(blocks, BlockLimit)) THEN At("frames")
    ELSE IF BlockLines(blocks[i]) # <<>> THEN [at |-> "subs", i |-> i, series |-> FALSE]
    ELSE BlockFrom(blocks, i + 1)

\* line 99: where control goes when the OCR step ends without a result
AfterOcr ==
    IF content_results.subtitles_text # <<>>
    THEN BlockFrom(Blocks(content_results.subtitles_text), 1)
    ELSE At("frames")

\* line 79: where control goes when the file name gave no result
AfterName ==
    IF content_results.ocr_text # <<>>
       /\ Fragments(content_results.ocr_text) # <<>>
    THEN [at |-> "ocr", i |-> 1, series |-> FALSE]
    ELSE AfterOcr

\* one identification query and the assignment of its pair to result, is_movie
Issue(source, i, query, is_series, out) ==
    /\ issued' = Append(issued, [source |-> source, i |-> i, is_series |-> is_series,
                                 query |-> query, result |-> out.result])
    /\ p_result' = out.result
    /\ p_is_movie' = out.is_movie

\* lines 66-77: the cleaned file name, as movie and then as series
SearchName(responses) ==
    /\ pc.at = "name"
    /\ LET cleaned_name == clean_filename(original_filename)
           out == search_tmdb_multilang(cleaned_name, pc.series, responses, Attempts)
       IN /\ Issue("name", 0, cleaned_name, pc.series, out)
          /\ pc' = IF out.result # NoneInfo THEN At("frames")
                   ELSE IF ~pc.series THEN [pc EXCEPT !.series = TRUE]
                   ELSE AfterName
    /\ UNCHANGED <<pin, content_results, detected, temp_dir, ret, notPipeVars>>

\* lines 80-98: the fragments of the OCR text, each as movie and then as series
SearchOcr(responses) ==
    /\ pc.at = "ocr"
    /\ LET fragments == Fragments(content_results.ocr_text)
           fragment == Prefix(fragments, FragmentLimit)[pc.i]
           out == search_tmdb_multilang(fragment, pc.series, responses, Attempts)
       IN /\ Issue("ocr", pc.i, fragment, pc.series, out)
          /\ pc' = IF out.result # NoneInfo THEN At("frames")
                   ELSE IF ~pc.series THEN [pc EXCEPT !.series = TRUE]
                   ELSE IF pc.i < Len(Prefix(fragments, FragmentLimit))
                        THEN [at |-> "ocr", i |-> pc.i + 1, series |-> FALSE]
                        ELSE AfterOcr
    /\ UNCHANGED <<pin, content_results, detected, temp_dir, ret, notPipeVars>>

\* lines 101-119: the subtitle blocks, each as movie and then as series
SearchSubtitles(responses) ==
    /\ pc.at = "subs"
    /\ LET blocks == Blocks(content_results.subtitles_text)
           search_text == JoinSpace(BlockLines(blocks[pc.i]))
           out == search_tmdb_multilang(search_text, pc.series, responses, Attempts)
       IN /\ Issue("subs", pc.i, search_text, pc.series, out)
          /\ pc' = IF out.result # NoneInfo THEN At("frames")
                   ELSE IF ~pc.series THEN [pc EXCEPT !.series = TRUE]
                   ELSE BlockFrom(blocks, pc.i + 1)
    /\ UNCHANGED <<pin, content_results, detected, temp_dir, ret, notPipeVars>>

\* lines 121-143: the frames left in the temp directory and what the studio
\* and actor detectors find in them; os.listdir raises when the directory is
\* gone, which the except clause turns into the error dict
Detect ==
    /\ pc.at = "frames"
    /\ LET listing == pin.capture_frames /\ (pin.detect_actors \/ pin.detect_studios)
       IN IF listing /\ ~temp_dir.exists
          THEN /\ ret' = ErrorResult
               /\ pc' = At("done")
               /\ temp_dir' = Finally(temp_dir)
               /\ UNCHANGED detected
          ELSE LET frame_files == IF listing THEN temp_dir.frames ELSE {}
                   detected_studios == IF pin.detect_studios /\ frame_files # {}
                                       THEN pin.studios ELSE <<>>
                   detected_actors == IF pin.detect_actors /\ frame_files # {}
                                      THEN pin.faces ELSE <<>>
               IN /\ detected' = [frame_files |-> frame_files,
                                  studios |-> detected_studios,
                                  actors |-> detected_actors]
                  /\ pc' = IF p_result = NoneInfo /\ detected_actors # <<>>
                           THEN At("actors") ELSE At("prepare")
                  /\ UNCHANGED <<ret, temp_dir>>
    /\ UNCHANGED <<pin, content_results, issued, p_result, p_is_movie, notPipeVars>>

\* lines 146-151: the actors' shared credits, as movie and then as series
SearchActors(tmdb) ==
    /\ pc.at = "actors"
    /\ LET out == search_by_actors(detected.actors, tmdb, pc.series)
       IN /\ Issue("actors", 0, detected.actors, pc.series, out)
          /\ pc' = IF out.result # NoneInfo \/ pc.series THEN At("prepare")
                   ELSE [pc EXCEPT !.series = TRUE]
    /\ UNCHANGED <<pin, content_results, detected, temp_dir, ret, notPipeVars>>

\* lines 153-212: the dict returned, and the finally clause
PrepareResult ==
    /\ pc.at = "prepare"
    /\ ret' = IF p_result # NoneInfo
              THEN LET se == SeasonEpisode(p_is_movie, original_filename)
                   IN [identificado |-> TRUE,
                       es_pelicula |-> p_is_movie,
                       info |-> p_result,
                       quality |-> content_results.quality,
                       season |-> se[1],
                       episode |-> se[2],
                       detected_studios |-> detected.studios,
                       detected_actors |-> detected.actors]
              ELSE [identificado |-> FALSE, info |-> NoneInfo,
                    quality |-> content_results.quality,
                    detected_studios |-> detected.studios,
                    detected_actors |-> detected.actors,
                    mensaje |-> <<"No se pudo identificar">>]
    /\ temp_dir' = Finally(temp_dir)
    /\ pc' = At("done")
    /\ UNCHANGED <<pin, content_results, issued, p_result, p_is_movie, detected,
                   notPipeVars>>

\* the finally clause of a pool worker whose temp_dir has the same name
PeerCleanup ==
    /\ pin.peer
    /\ pc.at \notin {"start", "done", "raised"}
    /\ temp_dir.exists
    /\ temp_dir' = [exists |-> FALSE, frames |-> {}]
    /\ UNCHANGED <<pin, pc, content_results, issued, p_result, p_is_movie, detected,
                   ret, notPipeVars>>

\* process_batch, lines 256-258: the file operation applied to the result
PlaceResult(moveOk) ==
    /\ pc.at = "done"
    /\ LET op == process_file_operation(fs, backup, pin.filepath, ret, OutputDir,
                                        moveOk)
       IN /\ fs' = op.fs
          /\ backup' = op.log
          /\ lastMoves' = op.moves
    /\ lastOp' = "place"
    /\ pc' = At("placed")
    /\ UNCHANGED <<pin, content_results, issued, p_result, p_is_movie, detected,
                   temp_dir, ret, restoreVars, batchVars, actorVars, seasonVars,
                   logoVars, tmdbVars, frameVars, tempVars>>

NextPipe ==
    \/ Start
    \/ Analyze
    \/ \E responses \in PipeResponses : SearchName(responses)
    \/ \E responses \in PipeResponses : SearchOcr(responses)
    \/ \E responses \in PipeResponses : SearchSubtitles(responses)
    \/ Detect
    \/ \E tmdb \in PipeTmdb : SearchActors(tmdb)
    \/ PrepareResult
    \/ PeerCleanup
    \/ \E moveOk \in BOOLEAN : PlaceResult(moveOk)

SpecPipe == InitPipe /\ [][NextPipe]_vars

-----------------------------------------------------------------------------
(* Claims about process_single_video *)

SourceRank(source) ==
    CASE source = "name" -> 1
      [] source = "ocr" -> 2
      [] source = "subs" -> 3
      [] source = "actors" -> 4

\* query a comes before query b in the order name, OCR fragments, subtitle
\* blocks, actors; within a source by index; movie before series
QueryBefore(a, b) ==
    \/ SourceRank(a.source) < SourceRank(b.source)
    \/ /\ a.source = b.source
       /\ \/ a.i < b.i
          \/ a.i = b.i /\ ~a.is_series /\ b.is_series

\* the queries are issued in the fixed order, within the limits of each source
IssuedInOrder ==
    /\ \A k \in 1..(Len(issued) - 1) : QueryBefore(issued[k], issued[k + 1])
    /\ \A k \in 1..Len(issued) :
          /\ issued[k].source = "ocr" =>
                issued[k].i <= FragmentLimit /\ CharLen(issued[k].query) > MinFragmentLen
          /\ issued[k].source = "subs" => issued[k].i <= BlockLimit
          /\ issued[k].source = "actors" => detected.actors # <<>>

\* no query is issued after one that returned a match
StopAtFirstMatch ==
    \A k \in 1..(Len(issued) - 1) : issued[k].result = NoneInfo

\* C3: the identification queries are issued in the fixed order, none after
\* the first match, and the dict returned carries that first match.
C3_FirstMatchReturned ==
    /\ IssuedInOrder
    /\ StopAtFirstMatch
    /\ (pc.at = "done" /\ issued # <<>> /\ Last(issued).result # NoneInfo)
       => (ret.identificado /\ ret.info = Last(issued).result)

\* C9: every call of process_single_video ends by returning a dict with the
\* key 'identificado'; no exception leaves the call.
C9_AlwaysResultDict ==
    pc.at \in {"done", "raised"}
    => (pc.at = "done" /\ "identificado" \in DOMAIN ret)

-----------------------------------------------------------------------------
(* Claims about the rows of the backup log *)

StatusOf(log) == {log[k].status : k \in 1..Len(log)}

\* C11 as stated: every row has a status among success, error_origin,
\* error_move, error:<msg> and no_action.
C11_StatusAsStated ==
    StatusOf(backup)
        \subseteq {"success", "error_origin", "error_move", "error: TypeError",
                   "no_action"}

\* C11: every row appended has a status among success, error_origen,
\* error_mover, 'error: <msg>' and no_action, and a success row is appended
\* only when the move call of that file operation reported success.
C11_StatusSet ==
    [][ /\ StatusOf(backup')
            \subseteq {"success", "error_origen", "error_mover", "error: TypeError",
                       "no_action"}
        /\ (Len(backup') > Len(backup) /\ Last(backup').status = "success")
           => /\ Len(lastMoves') = 1
              /\ lastMoves'[1][1] = Last(backup').ruta_original
              /\ lastMoves'[1][3]
      ]_vars

\* a log with a success row, a failed move and an exception row
C11_Witness ==
    {"success", "error_mover", "error: TypeError"} \subseteq StatusOf(backup)

-----------------------------------------------------------------------------
(* Claims about the destination of an identified video *)

\* NN for a number below 100
TwoDigits(n) == <<DigitTok(n \div 10), DigitTok(n % 10)>>

\* the title as it may appear in a file name, and the year of a date
PlainTitle(title) == SelectSeq(title, IsValidChar)

Year4(date) == SubSeq(date, 1, 4)

ExpectedMoviePath(title, date) ==
    <<"in", "/", "Movies", "/">>
        \o PlainTitle(title) \o <<" (">> \o Year4(date) \o <<")", "/">>
        \o PlainTitle(title) \o <<" (">> \o Year4(date) \o <<") [", "1080p", "]", ".mp4">>

ExpectedShowPath(title, date, season, episode) ==
    <<"in", "/", "Shows", "/">>
        \o PlainTitle(title) \o <<" (">> \o Year4(date) \o <<")", "/", "Season ">>
        \o TwoDigits(season) \o <<"/">>
        \o PlainTitle(title) \o <<" S">> \o TwoDigits(season) \o <<"E">>
        \o TwoDigits(episode) \o <<" [", "1080p", "]", ".mp4">>

-----------------------------------------------------------------------------
(* Claims about the destination of an unmatched video *)

StudiosOf(result) == Get(result, "detected_studios", <<>>)

ExpectedStudioPath(placeholder) ==
    <<"in", "/", "ByStudio", "/">>
        \o (IF StudiosOf(ret) = <<>> THEN placeholder
            ELSE PlainTitle(StudiosOf(ret)[1]))
        \o <<"/">> \o basename(pin.filepath)

\* C13 as stated: an unmatched file goes to ByStudio/<S>/<original filename>,
\* S the first detected studio, sanitized, or "none" when there is none.
C13_NonePlaceholder ==
    (pc.at = "placed" /\ ~ret.identificado
        /\ Last(backup).status \in {"success", "error_mover"})
    => Last(backup).ruta_nueva = ExpectedStudioPath(<<"none">>)

\* C13: the destination of an unmatched file is ByStudio/<S>/<original
\* filename>, S the first detected studio, sanitized, or SinCadenaTelevisiva
\* when there is none; the file is moved there when the path is free.
C13_StudioLayout ==
    (pc.at = "placed" /\ ~ret.identificado
        /\ Last(backup).status \in {"success", "error_mover"})
    => /\ Last(backup).ruta_nueva = ExpectedStudioPath(<<"SinCadenaTelevisiva">>)
       /\ Last(backup).nombre_nuevo = basename(pin.filepath)
       /\ Last(backup).status = "success" => exists(fs, Last(backup).ruta_nueva)

\* an unmatched video with detected studios, moved to its studio folder
C13_Witness ==
    /\ pc.at = "placed"
    /\ ~ret.identificado
    /\ StudiosOf(ret) # <<>>
    /\ Last(backup).status = "success"

(***************************************************************************)
(* extract_season_episode_from_filename as a pure function: file names     *)
(* built from a show name and up to MaxTags dot-separated release tags.    *)
(***************************************************************************)
MaxTags == 3

\* a tag is its characters and, when it is a season/episode marker, the
\* integers the marker states
TagSxxEyy == [chars |-> <<"S", "0", "1", "E", "0", "2">>, marker |-> <<1, 2>>]
TagNxNN == [chars |-> <<"2", "x", "0", "5">>, marker |-> <<2, 5>>]
TagResolution == [chars |-> <<"1", "9", "2", "0", "x", "1", "0", "8", "0">>, marker |-> <<>>]
TagHeight == [chars |-> <<"1", "0", "8", "0", "p">>, marker |-> <<>>]
TagYear == [chars |-> <<"2", "0", "2", "0">>, marker |-> <<>>]
TagCodec == [chars |-> <<"x", "2", "6", "4">>, marker |-> <<>>]
TagWord == [chars |-> <<"H", "D">>, marker |-> <<>>]

Tags == {TagSxxEyy, TagNxNN, TagResolution, TagHeight, TagYear, TagCodec, TagWord}

RECURSIVE JoinDots(_)
JoinDots(tags) ==
    IF tags = <<>> THEN <<>>
    ELSE <<".">> \o Head(tags).chars \o JoinDots(Tail(tags))

\* "Show.<tag>.<tag>.mkv"
NameOf(tags) == <<"S", "h", "o", "w">> \o JoinDots(tags) \o <<".mkv">>

MarkersOf(tags) == {i \in 1..Len(tags) : tags[i].marker # <<>>}

InitSeason ==
    /\ \E n \in 0..MaxTags : \E tags \in [1..n -> Tags] :
          sin = [tags |-> tags, filename |-> NameOf(tags)]
    /\ sret = <<>>
    /\ lin = <<>>
    /\ lret = <<>>
    /\ tin = <<>>
    /\ tret = <<>>
    /\ fin = <<>>
    /\ fret = <<>>
    /\ now = 0
    /\ tmp = <<>>
    /\ wk = <<>>
    /\ ain = <<>>
    /\ aret = <<>>
    /\ fs = <<>>
    /\ backup = <<>>
    /\ lastMoves = <<>>
    /\ restored = 0
    /\ errors = 0
    /\ lastOp = "init"
    /\ nRestores = 0
    /\ video_files = <<>>
    /\ ident = <<>>
    /\ config = [debug |-> TRUE, rename_files |-> TRUE, output_language |-> "en"]
    /\ stats = [total |-> 0, procesados |-> 0, identificados |-> 0,
                no_identificados |-> 0, errores |-> 0]
    /\ results = <<>>
    /\ nextTask = 1
    /\ running = <<>>
    /\ ready = <<>>
    /\ bstate = "idle"
    /\ pin = <<>>
    /\ pc = "idle"
    /\ content_results = <<>>
    /\ issued = <<>>
    /\ p_result = NoneInfo
    /\ p_is_movie = NoneInfo
    /\ detected = <<>>
    /\ temp_dir = <<>>
    /\ ret = NoneInfo

\* extract_season_episode_from_filename(filename)
ExtractSeasonEpisode ==
    /\ sin # <<>>
    /\ sret = <<>>
    /\ sret' = extract_season_episode_from_filename(sin.filename)
    /\ UNCHANGED <<sin, notSeasonVars>>

NextSeason == ExtractSeasonEpisode

SpecSeason == InitSeason /\ [][NextSeason]_vars

\* C18: a file name that carries one SxxEyy or NxNN marker yields the
\* integers of that marker.
C18_MarkerIntegers ==
    (sret # <<>> /\ Cardinality(MarkersOf(sin.tags)) = 1)
        => sret = sin.tags[CHOOSE i \in MarkersOf(sin.tags) : TRUE].marker

\* C18, the case where the code agrees: the marker is the first tag with digits
C18_Witness ==
    /\ sret # <<>>
    /\ Len(sin.tags) = 2
    /\ sin.tags[1] = TagNxNN
    /\ sin.tags[2] = TagResolution
    /\ sret = <<2, 5>>

\* C19: a file name that carries no season/episode marker yields
\* (None, None), never a pair of numbers.
C19_NoMarkerNotFound ==
    (sret # <<>> /\ MarkersOf(sin.tags) = {}) => sret = <<NoneNum, NoneNum>>

\* C19, the case where the code agrees: no tag has digits the patterns take
C19_Witness ==
    /\ sret # <<>>
    /\ Len(sin.tags) = 1
    /\ sin.tags[1] = TagWord
    /\ sret = <<NoneNum, NoneNum>>

\* C14: a returned result is either unmatched (identificado false, no info)
\* or fully matched (identificado true, info, a boolean kind); a matched
\* movie has no season and no episode, a matched series has both as integers.
C14_ResultShape ==
    (pc.at \in {"done", "placed"}) =>
        \/ /\ ~ret.identificado
           /\ ret.info = NoneInfo
        \/ /\ ret.identificado
           /\ ret.info # NoneInfo
           /\ ret.es_pelicula \in BOOLEAN
           /\ ret.es_pelicula => (ret.season = NoneNum /\ ret.episode = NoneNum)
           /\ ~ret.es_pelicula => (ret.season \in Nat /\ ret.episode \in Nat)

\* C14: a series has been returned as a match, with the default season and episode
C14_Witness ==
    /\ pc.at = "done"
    /\ ret.identificado
    /\ ~ret.es_pelicula
    /\ ret.season = 1
    /\ ret.episode = 1

\* C15: a call for an existing valid video that ends without a match returns
\* a result that carries the lists of detected studios and detected actors.
C15_CarriesDetected ==
    (pc.at = "done" /\ is_valid_video(fs, pin.filepath) /\ ~ret.identificado) =>
        /\ "detected_studios" \in DOMAIN ret
        /\ "detected_actors" \in DOMAIN ret
        /\ ret.detected_studios = detected.studios
        /\ ret.detected_actors = detected.actors

\* C15, the case where the code agrees: an unmatched result with a studio
C15_Witness ==
    /\ pc.at = "done"
    /\ is_valid_video(fs, pin.filepath)
    /\ ~ret.identificado
    /\ "detected_studios" \in DOMAIN ret
    /\ ret.detected_studios # <<>>
    /\ ret.detected_studios = detected.studios

\* C16: with frame capture and a detector enabled, the frames the detectors
\* are given are the frames that were extracted from the file, in debug and
\* in pooled mode alike.
C16_FramesReachDetectors ==
    (/\ pc.at \in {"actors", "prepare"}
     /\ pin.capture_frames
     /\ (pin.detect_actors \/ pin.detect_studios))
        => detected.frame_files = ExtractedFrames

\* C16, the case where the code agrees: in debug mode the detectors saw the frame
C16_Witness ==
    /\ pc.at = "prepare"
    /\ pin.debug
    /\ pin.detect_actors
    /\ ExtractedFrames # {}
    /\ detected.frame_files = ExtractedFrames

(***************************************************************************)
(* studio_detect.py, detect_studio_from_logo as a pure function of the     *)
(* image size and the logo files of logos_dir.  Scores are in tenths.      *)
(***************************************************************************)
MaxLogos == 2

\* threshold=0.7
Threshold == 7

\* the frame: image.shape[0], image.shape[1]
ImageShape == <<10, 10>>

\* a logo file: studio is the file name without extension, readable is
\* cv2.imread giving an image, shape its height and width, score the max_val
\* cv2.matchTemplate finds for it on the frame
LogoStudio(i) == <<"L", DigitTok(i)>>

LogoShapes == {<<2, 2>>, <<20, 20>>, <<40, 1>>}

LogoScores == {5, 7, 9}

LogoKinds == [readable : BOOLEAN, shape : LogoShapes, score : LogoScores]

\* int(logo_img.shape[k] * scale), scale = min(H / h, W / w) * 0.8
Resized(shape, image) ==
    IF image[1] * shape[2] <= image[2] * shape[1]
    THEN <<(8 * shape[1] * image[1]) \div (10 * shape[1]),
           (8 * shape[2] * image[1]) \div (10 * shape[1])>>
    ELSE <<(8 * shape[1] * image[2]) \div (10 * shape[2]),
           (8 * shape[2] * image[2]) \div (10 * shape[2])>>

TooLarge(shape, image) == shape[1] > image[1] \/ shape[2] > image[2]

\* the loop over logo_files: the matches collected, or "raised" when
\* cv2.resize is given an empty size (a side of the resized logo is 0)
RECURSIVE ScanLogos(_, _, _, _, _)
ScanLogos(logo_files, image, threshold, i, matches) ==
    IF i > Len(logo_files) THEN [raised |-> FALSE, matches |-> matches]
    ELSE LET logo == logo_files[i]
             shape == IF TooLarge(logo.shape, image)
                      THEN Resized(logo.shape, image) ELSE logo.shape
         IN IF ~logo.readable
            THEN ScanLogos(logo_files, image, threshold, i + 1, matches)
            ELSE IF shape[1] = 0 \/ shape[2] = 0
            THEN [raised |-> TRUE, matches |-> matches]
            ELSE IF TooLarge(shape, image)
            THEN ScanLogos(logo_files, image, threshold, i + 1, matches)
            ELSE IF logo.score >= threshold
            THEN ScanLogos(logo_files, image, threshold, i + 1,
                           Append(matches, <<logo.studio, logo.score>>))
            ELSE ScanLogos(logo_files, image, threshold, i + 1, matches)

\* max(matches, key=lambda x: x[1]): the first of the highest-scoring
BestMatch(matches) ==
    matches[Leftmost({k \in 1..Len(matches) :
                         \A m \in 1..Len(matches) : matches[m][2] <= matches[k][2]})]

detect_studio_from_logo(image, logo_files, cv2_available, threshold) ==
    IF ~cv2_available THEN NoneStr
    ELSE IF logo_files = <<>> THEN NoneStr
    ELSE LET scan == ScanLogos(logo_files, image, threshold, 1, <<>>)
         IN IF scan.raised THEN NoneStr
            ELSE IF scan.matches # <<>> THEN BestMatch(scan.matches)[1]
            ELSE NoneStr

InitLogo ==
    /\ \E n \in 0..MaxLogos, cv2_available \in BOOLEAN :
       \E kinds \in [1..n -> LogoKinds] :
          lin = [image |-> ImageShape,
                 cv2_available |-> cv2_available,
                 logo_files |-> [i \in 1..n |->
                                    [studio |-> LogoStudio(i),
                                     readable |-> kinds[i].readable,
                                     shape |-> kinds[i].shape,
                                     score |-> kinds[i].score]]]
    /\ lret = <<>>
    /\ tin = <<>>
    /\ tret = <<>>
    /\ fin = <<>>
    /\ fret = <<>>
    /\ now = 0
    /\ tmp = <<>>
    /\ wk = <<>>
    /\ sin = <<>>
    /\ sret = <<>>
    /\ ain = <<>>
    /\ aret = <<>>
    /\ fs = <<>>
    /\ backup = <<>>
    /\ lastMoves = <<>>
    /\ restored = 0
    /\ errors = 0
    /\ lastOp = "init"
    /\ nRestores = 0
    /\ video_files = <<>>
    /\ ident = <<>>
    /\ config = [debug |-> TRUE, rename_files |-> TRUE, output_language |-> "en"]
    /\ stats = [total |-> 0, procesados |-> 0, identificados |-> 0,
                no_identificados |-> 0, errores |-> 0]
    /\ results = <<>>
    /\ nextTask = 1
    /\ running = <<>>
    /\ ready = <<>>
    /\ bstate = "idle"
    /\ pin = <<>>
    /\ pc = "idle"
    /\ content_results = <<>>
    /\ issued = <<>>
    /\ p_result = NoneInfo
    /\ p_is_movie = NoneInfo
    /\ detected = <<>>
    /\ temp_dir = <<>>
    /\ ret = NoneInfo

\* detect_studio_from_logo(image, logos_dir)
DetectStudioFromLogo ==
    /\ lin # <<>>
    /\ lret = <<>>
    /\ lret' = detect_studio_from_logo(lin.image, lin.logo_files, lin.cv2_available, Threshold)
    /\ UNCHANGED <<lin, notLogoVars>>

NextLogo == DetectStudioFromLogo

SpecLogo == InitLogo /\ [][NextLogo]_vars

\* the logos that can be matched against the frame (readable, and of a size
\* that fits or can be resized to fit)
Matchable(logo, image) ==
    /\ logo.readable
    /\ TooLarge(logo.shape, image) =>
          (Resized(logo.shape, image)[1] > 0 /\ Resized(logo.shape, image)[2] > 0)

\* the logos whose correlation score is at least the threshold
Accepted(logo_files, image) ==
    {i \in 1..Len(logo_files) :
        Matchable(logo_files[i], image) /\ logo_files[i].score >= Threshold}

\* C17: with cv2 available the studio returned is the one of the accepted
\* logo with the highest score, and no studio is returned when no logo is
\* accepted.
C17_HighestAccepted ==
    (lret # <<>> /\ lin.cv2_available) =>
        LET acc == Accepted(lin.logo_files, lin.image)
        IN IF acc = {} THEN lret = NoneStr
           ELSE \E i \in acc :
                   /\ lret = lin.logo_files[i].studio
                   /\ \A j \in acc : lin.logo_files[j].score <= lin.logo_files[i].score

\* C17, the case where the code agrees: the second, higher-scoring logo wins
C17_Witness ==
    /\ lret # <<>>
    /\ lin.cv2_available
    /\ Len(lin.logo_files) = 2
    /\ lin.logo_files[1].readable
    /\ lin.logo_files[1].score = 7
    /\ lin.logo_files[2].readable
    /\ lin.logo_files[2].score = 9
    /\ lret = LogoStudio(2)

(***************************************************************************)
(* search_tmdb_multilang as a pure function of the responses TMDb gives to *)
(* each attempt.                                                           *)
(***************************************************************************)
\* the response to a search request: requests.get raises, a status other
\* than 200, an empty result list, or a top result with its popularity
EsKinds ==
    {[kind |-> "error"], [kind |-> "bad"], [kind |-> "empty"],
     [kind |-> "hit", popularity |-> 5]}

EnKinds ==
    {[kind |-> "error"], [kind |-> "bad"], [kind |-> "empty"],
     [kind |-> "hit", popularity |-> 3], [kind |-> "hit", popularity |-> 5],
     [kind |-> "hit", popularity |-> 9]}

\* the responses to one attempt; the detail request is only made after a
\* hit in Spanish
AttemptKinds ==
    {r \in [es : EsKinds, det : {"ok", "bad", "error"}, en : EnKinds] :
        r.es.kind # "hit" => r.det = "ok"}

InitTmdb ==
    /\ \E is_series \in BOOLEAN : \E responses \in [1..Attempts -> AttemptKinds] :
          tin = [query |-> Title1, is_series |-> is_series, responses |-> responses]
    /\ \E output_language \in {"en", "es"} :
          config = [debug |-> TRUE, rename_files |-> TRUE,
                    output_language |-> output_language]
    /\ tret = <<>>
    /\ fin = <<>>
    /\ fret = <<>>
    /\ now = 0
    /\ tmp = <<>>
    /\ wk = <<>>
    /\ lin = <<>>
    /\ lret = <<>>
    /\ sin = <<>>
    /\ sret = <<>>
    /\ ain = <<>>
    /\ aret = <<>>
    /\ fs = <<>>
    /\ backup = <<>>
    /\ lastMoves = <<>>
    /\ restored = 0
    /\ errors = 0
    /\ lastOp = "init"
    /\ nRestores = 0
    /\ video_files = <<>>
    /\ ident = <<>>
    /\ stats = [total |-> 0, procesados |-> 0, identificados |-> 0,
                no_identificados |-> 0, errores |-> 0]
    /\ results = <<>>
    /\ nextTask = 1
    /\ running = <<>>
    /\ ready = <<>>
    /\ bstate = "idle"
    /\ pin = <<>>
    /\ pc = "idle"
    /\ content_results = <<>>
    /\ issued = <<>>
    /\ p_result = NoneInfo
    /\ p_is_movie = NoneInfo
    /\ detected = <<>>
    /\ temp_dir = <<>>
    /\ ret = NoneInfo

\* search_tmdb_multilang(query, config, is_series)
SearchTmdbMultilang ==
    /\ tin # <<>>
    /\ tret = <<>>
    /\ tret' = TmdbRun(tin.query, tin.is_series, tin.responses, Attempts)
    /\ UNCHANGED <<tin, notTmdbVars>>

NextTmdb == SearchTmdbMultilang

SpecTmdb == InitTmdb /\ [][NextTmdb]_vars

\* a request of this attempt raises
HasError(r) == r.es.kind = "error" \/ r.en.kind = "error" \/ r.det = "error"

\* C20: a call ends after at most attempts-1 retries and a bounded number of
\* requests; every retry follows an exception; a non-200 response or an
\* empty result list is no result and is not retried.
C20_BoundedRetries ==
    (tret # <<>>) =>
        /\ tret.calls <= Attempts
        /\ tret.requests <= 3 * tret.calls
        /\ \A k \in 1..(tret.calls - 1) : HasError(tin.responses[k])
        /\ (tin.responses[1].es.kind \in {"bad", "empty"}
              /\ tin.responses[1].en.kind \in {"bad", "empty"})
           => (tret.calls = 1 /\ tret.requests = 2 /\ tret.result = NoneInfo)

\* C20: every attempt raised; the call gave up after the last one
C20_Witness ==
    /\ tret # <<>>
    /\ \A k \in 1..Attempts : tin.responses[k].es.kind = "error"
    /\ tret.calls = Attempts
    /\ tret.result = NoneInfo

\* the responses of the call that returned (the last attempt made)
FinalAttempt == tin.responses[tret.calls]

\* the result is the top result of the Spanish query (as found, or as its
\* detail representation), respectively of the English query
FromEs(item) == item # NoneInfo /\ (item.detail \/ item.language = "es")

FromEn(item) == item # NoneInfo /\ ~item.detail /\ item.language = "en"

C22_OutputLanguage ==
    (tret # <<>> /\ tret.result # NoneInfo /\ ~HasError(FinalAttempt)
        /\ FinalAttempt.det = "ok")
        => tret.result.language = OutputLanguage

\* C27: when the Spanish query of the first round gave a match and the
\* English query raises in that round and in every retry, a match is returned.
C27_MatchNotLost ==
    (/\ tret # <<>>
     /\ tin.responses[1].es.kind = "hit"
     /\ tin.responses[1].det # "error"
     /\ \A k \in 1..Attempts : tin.responses[k].en.kind = "error")
        => tret.result # NoneInfo

\* C24: a query of the subtitle step contains no timing line (no line
\* '<start> --> <end>' of its block), and only the first five blocks are used.
C24_NoTimingLineInQuery ==
    \A k \in 1..Len(issued) :
        issued[k].source = "subs" =>
            /\ "-->" \notin Range(issued[k].query)
            /\ issued[k].i <= BlockLimit

\* C24, the part the code keeps: a line that starts with the arrow is
\* dropped, so the block that has no other line issues no query
C24_Witness ==
    /\ pin.subtitles = ArrowBlock \o <<"\n\n">> \o SrtBlock(2)
    /\ \E k \in 1..Len(issued) : issued[k].source = "subs" /\ issued[k].i = 2
    /\ \A k \in 1..Len(issued) : issued[k].source = "subs" => issued[k].i # 1

(***************************************************************************)
(* studio_detect.py and actor_detect.py: the per-file lists built from the *)
(* frames of one video.                                                    *)
(***************************************************************************)
MaxFrames == 3

Studio2 == <<"CNN">>

\* a frame file: readable is cv2.imread giving an image; ocr_raises is
\* pytesseract.image_to_string raising on it; text is what
\* detect_studio_from_text finds in its OCR text and logo what
\* detect_studio_from_logo finds (None when nothing); actors is the list
\* recognize_actors returns for it
FrameKinds ==
    {[readable |-> FALSE, ocr_raises |-> FALSE, text |-> Studio1, logo |-> Studio2,
      actors |-> <<ActorName(1)>>],
     [readable |-> TRUE, ocr_raises |-> TRUE, text |-> Studio1, logo |-> Studio2,
      actors |-> <<>>],
     [readable |-> TRUE, ocr_raises |-> FALSE, text |-> Studio1, logo |-> NoneStr,
      actors |-> <<ActorName(1)>>],
     [readable |-> TRUE, ocr_raises |-> FALSE, text |-> Studio1, logo |-> Studio2,
      actors |-> <<ActorName(1), ActorName(2)>>],
     [readable |-> TRUE, ocr_raises |-> FALSE, text |-> Studio2, logo |-> Studio1,
      actors |-> <<ActorName(2), ActorName(1)>>],
     [readable |-> TRUE, ocr_raises |-> FALSE, text |-> NoneStr, logo |-> Studio2,
      actors |-> <<>>],
     [readable |-> TRUE, ocr_raises |-> FALSE, text |-> Studio1, logo |-> Studio1,
      actors |-> <<ActorName(2)>>]}

\* for x in found: if x not in all: all.append(x)
RECURSIVE AppendNew(_, _)
AppendNew(all, found) ==
    IF found = <<>> THEN all
    ELSE AppendNew(IF Head(found) \in Range(all) THEN all ELSE Append(all, Head(found)),
                   Tail(found))

\* the text detector, then the logo detector; an exception ends the frame
\* with what was found before it
analyze_frame_for_studios(frame) ==
    IF frame.ocr_raises THEN <<>>
    ELSE LET by_text == IF frame.text # NoneStr THEN <<frame.text>> ELSE <<>>
         IN IF frame.logo # NoneStr THEN AppendNew(by_text, <<frame.logo>>)
            ELSE by_text

RECURSIVE dsif_StopAtUnreadable(_, _)
dsif_StopAtUnreadable(frame_files, all_detected_studios) ==
    IF frame_files = <<>> \/ ~Head(frame_files).readable THEN all_detected_studios
    ELSE dsif_StopAtUnreadable(Tail(frame_files),
             AppendNew(all_detected_studios, analyze_frame_for_studios(Head(frame_files))))

\* the loop of detect_studios_in_frames from all_detected_studios on
RECURSIVE detect_studios_in_frames(_, _)
detect_studios_in_frames(frame_files, all_detected_studios) ==
    IF frame_files = <<>> THEN all_detected_studios
    ELSE IF ~Head(frame_files).readable
    THEN detect_studios_in_frames(Tail(frame_files), all_detected_studios)
    ELSE detect_studios_in_frames(Tail(frame_files),
             AppendNew(all_detected_studios, analyze_frame_for_studios(Head(frame_files))))

\* the loop of detect_actors_in_frames from all_detected_actors on
RECURSIVE detect_actors_in_frames(_, _)
detect_actors_in_frames(frame_files, all_detected_actors) ==
    IF frame_files = <<>> THEN all_detected_actors
    ELSE IF ~Head(frame_files).readable
    THEN detect_actors_in_frames(Tail(frame_files), all_detected_actors)
    ELSE detect_actors_in_frames(Tail(frame_files),
             AppendNew(all_detected_actors, Head(frame_files).actors))

InitFrames ==
    /\ \E n \in 0..MaxFrames : \E frame_files \in [1..n -> FrameKinds] :
          fin = [frame_files |-> frame_files]
    /\ fret = [done |-> {}, studios |-> <<>>, actors |-> <<>>]
    /\ now = 0
    /\ tmp = <<>>
    /\ wk = <<>>
    /\ tin = <<>>
    /\ tret = <<>>
    /\ lin = <<>>
    /\ lret = <<>>
    /\ sin = <<>>
    /\ sret = <<>>
    /\ ain = <<>>
    /\ aret = <<>>
    /\ fs = <<>>
    /\ backup = <<>>
    /\ lastMoves = <<>>
    /\ restored = 0
    /\ errors = 0
    /\ lastOp = "init"
    /\ nRestores = 0
    /\ video_files = <<>>
    /\ ident = <<>>
    /\ config = [debug |-> TRUE, rename_files |-> TRUE, output_language |-> "en"]
    /\ stats = [total |-> 0, procesados |-> 0, identificados |-> 0,
                no_identificados |-> 0, errores |-> 0]
    /\ results = <<>>
    /\ nextTask = 1
    /\ running = <<>>
    /\ ready = <<>>
    /\ bstate = "idle"
    /\ pin = <<>>
    /\ pc = "idle"
    /\ content_results = <<>>
    /\ issued = <<>>
    /\ p_result = NoneInfo
    /\ p_is_movie = NoneInfo
    /\ detected = <<>>
    /\ temp_dir = <<>>
    /\ ret = NoneInfo

\* detect_studios_in_frames(frame_files, studios_mapping, logos_dir)
DetectStudiosInFrames ==
    /\ DOMAIN fin # {}
    /\ "studios" \notin fret.done
    /\ fret' = [fret EXCEPT !.done = @ \cup {"studios"},
                            !.studios = detect_studios_in_frames(fin.frame_files, <<>>)]
    /\ UNCHANGED <<fin, notFrameVars>>

\* detect_actors_in_frames(frame_files, actors_db, min_confidence)
DetectActorsInFrames ==
    /\ DOMAIN fin # {}
    /\ "actors" \notin fret.done
    /\ fret' = [fret EXCEPT !.done = @ \cup {"actors"},
                            !.actors = detect_actors_in_frames(fin.frame_files, <<>>)]
    /\ UNCHANGED <<fin, notFrameVars>>

NextFrames == DetectStudiosInFrames \/ DetectActorsInFrames

SpecFrames == InitFrames /\ [][NextFrames]_vars

\* what the detectors find in one frame: nothing in a frame that cannot be
\* read or on which a detector fails
StudiosSeenIn(frame) ==
    IF ~frame.readable \/ frame.ocr_raises THEN <<>>
    ELSE SelectSeq(<<frame.text, frame.logo>>, LAMBDA x : x # NoneStr)

ActorsSeenIn(frame) == IF frame.readable THEN frame.actors ELSE <<>>

\* the detections of all frames one after the other, in frame order
RECURSIVE AllSeen(_)
AllSeen(per_frame) ==
    IF per_frame = <<>> THEN <<>> ELSE Head(per_frame) \o AllSeen(Tail(per_frame))

FirstIndex(seq, x) == CHOOSE i \in 1..Len(seq) : seq[i] = x /\ \A j \in 1..(i - 1) : seq[j] # x

\* list is the union of seen: same names, no name twice, first-seen order
IsUnionOf(list, seen) ==
    /\ Range(list) = Range(seen)
    /\ \A a, b \in 1..Len(list) : a < b =>
          /\ list[a] # list[b]
          /\ FirstIndex(seen, list[a]) < FirstIndex(seen, list[b])

\* C23: each per-file list is the union of the per-frame detections, without
\* duplicates and in first-seen order; unreadable and failing frames are
\* skipped and the names of the other frames are kept.
C23_UnionOfFrames ==
    /\ "studios" \in fret.done
          => IsUnionOf(fret.studios,
                       AllSeen([i \in 1..Len(fin.frame_files) |->
                                   StudiosSeenIn(fin.frame_files[i])]))
    /\ "actors" \in fret.done
          => IsUnionOf(fret.actors,
                       AllSeen([i \in 1..Len(fin.frame_files) |->
                                   ActorsSeenIn(fin.frame_files[i])]))

\* C23: an unreadable frame between two frames that both name a studio
C23_Witness ==
    /\ fret.done = {"studios", "actors"}
    /\ Len(fin.frame_files) = 3
    /\ ~fin.frame_files[1].readable
    /\ fin.frame_files[2].ocr_raises
    /\ fret.studios = <<Studio2, Studio1>>
    /\ fret.actors = <<ActorName(2), ActorName(1)>>

\* C29: a restore destroys no file: the files on disk are the same before
\* and after it, also when a row's original path is occupied.
C29_RestoreKeepsFiles ==
    [][nRestores' # nRestores => Contents(fs') = Contents(fs)]_vars

SrcPaths == {SrcPath(i) : i \in 1..NFiles}

\* the log of placing a set of source files, each once
PlacedOnce ==
    /\ \A i \in 1..Len(backup) : backup[i].ruta_original \in SrcPaths
    /\ \A i, j \in 1..Len(backup) :
          i # j => backup[i].ruta_original # backup[j].ruta_original

\* C25: after placing a set of files and one restore in which no move
\* failed, every file of a success row is back at its original path and no
\* file is left under the output layout.
C25_RoundTrip ==
    (lastOp = "restore" /\ errors = 0 /\ PlacedOnce) =>
        /\ \A i \in SuccessRows(backup) : exists(fs, backup[i].ruta_original)
        /\ DOMAIN fs \subseteq SrcPaths

\* C25, the case where the code agrees: two files with different
\* destinations placed and restored
C25_Witness ==
    /\ lastOp = "restore"
    /\ errors = 0
    /\ PlacedOnce
    /\ Cardinality(SuccessRows(backup)) = 2
    /\ restored = 2
    /\ DOMAIN fs = SrcPaths

\* C26: the row a successful placement appends records, as ruta_nueva and
\* nombre_nuevo, the path and name at which the moved file is afterwards.
C26_RecordedPathIsActual ==
    [][ (Len(backup') = Len(backup) + 1 /\ Last(backup').status = "success") =>
          /\ lastMoves'[1][2] = Last(backup').ruta_nueva
          /\ basename(lastMoves'[1][2]) = Last(backup').nombre_nuevo
          /\ exists(fs', Last(backup').ruta_nueva)
          /\ fs'[Last(backup').ruta_nueva] = fs[Last(backup').ruta_original]
      ]_vars

\* C26, the case where the code agrees: a placement at a free destination
C26_Witness ==
    /\ lastOp = "place"
    /\ Len(backup) = 1
    /\ backup[1].status = "success"
    /\ lastMoves[1][2] = backup[1].ruta_nueva
    /\ exists(fs, backup[1].ruta_nueva)

-----------------------------------------------------------------------------
(***************************************************************************)
(* process.py: the temporary directories of the pool workers.  Each worker *)
(* runs process_single_video for one video of the batch: it names its      *)
(* directory after the cleaned file name and the current second, fills it  *)
(* with frames and removes it in its finally clause.                       *)
(***************************************************************************)
MaxTicks == 3

\* clock ticks per second: strftime("%Y%m%d_%H%M%S") keeps whole seconds
TicksPerSecond == 2

\* datetime.now().strftime("%Y%m%d_%H%M%S") at tick t
Timestamp(t) == Dec(t \div TicksPerSecond)

\* the directory name process_single_video builds at tick t
TempDirAt(filename, t) ==
    clean_filename(filename) \o <<"_">> \o Timestamp(t)

Active == {i \in DOMAIN wk : wk[i].at # "done"}

\* os.makedirs(d, exist_ok=True) in TEMP_DIR
Makedirs(t, d) ==
    IF d \in DOMAIN t THEN t
    ELSE [e \in DOMAIN t \cup {d} |-> IF e = d THEN 0 ELSE t[e]]

InitTemp ==
    /\ now = 0
    /\ tmp = <<>>
    /\ wk = <<>>
    /\ fin = <<>>
    /\ fret = <<>>
    /\ tin = <<>>
    /\ tret = <<>>
    /\ lin = <<>>
    /\ lret = <<>>
    /\ sin = <<>>
    /\ sret = <<>>
    /\ ain = <<>>
    /\ aret = <<>>
    /\ fs = <<>>
    /\ backup = <<>>
    /\ lastMoves = <<>>
    /\ restored = 0
    /\ errors = 0
    /\ lastOp = "init"
    /\ nRestores = 0
    /\ video_files = [i \in 1..NFiles |-> SrcPath(i)]
    /\ ident = <<>>
    /\ config = [debug |-> FALSE, rename_files |-> TRUE, output_language |-> "en"]
    /\ stats = [total |-> 0, procesados |-> 0, identificados |-> 0,
                no_identificados |-> 0, errores |-> 0]
    /\ results = <<>>
    /\ nextTask = 1
    /\ running = <<>>
    /\ ready = <<>>
    /\ bstate = "idle"
    /\ pin = <<>>
    /\ pc = "idle"
    /\ content_results = <<>>
    /\ issued = <<>>
    /\ p_result = NoneInfo
    /\ p_is_movie = NoneInfo
    /\ detected = <<>>
    /\ temp_dir = <<>>
    /\ ret = NoneInfo

\* the pool hands the next video to a free worker, which builds the name of
\* its directory and creates it
WorkerStart ==
    /\ Cardinality(DOMAIN wk) < Len(video_files)
    /\ Cardinality(Active) < MaxProcesses
    /\ LET i == Cardinality(DOMAIN wk) + 1
           d == TempDirAt(basename(video_files[i]), now)
       IN /\ wk' = [j \in DOMAIN wk \cup {i} |->
                       IF j = i THEN [at |-> "started", temp_dir |-> d] ELSE wk[j]]
          /\ tmp' = Makedirs(tmp, d)
    /\ UNCHANGED <<now, fsVars, restoreVars, batchVars, pipeVars, actorVars,
                   seasonVars, logoVars, tmdbVars, frameVars>>

\* extract_frames of worker i writes its frame file into temp_dir
WorkerExtract(i) ==
    /\ i \in DOMAIN wk
    /\ wk[i].at = "started"
    /\ tmp' = [Makedirs(tmp, wk[i].temp_dir) EXCEPT ![wk[i].temp_dir] = i]
    /\ wk' = [wk EXCEPT ![i].at = "frames"]
    /\ UNCHANGED <<now, fsVars, restoreVars, batchVars, pipeVars, actorVars,
                   seasonVars, logoVars, tmdbVars, frameVars>>

\* the finally clause of worker i: rmtree(temp_dir) if it exists
WorkerFinally(i) ==
    /\ i \in DOMAIN wk
    /\ wk[i].at = "frames"
    /\ tmp' = [e \in DOMAIN tmp \ {wk[i].temp_dir} |-> tmp[e]]
    /\ wk' = [wk EXCEPT ![i].at = "done"]
    /\ UNCHANGED <<now, fsVars, restoreVars, batchVars, pipeVars, actorVars,
                   seasonVars, logoVars, tmdbVars, frameVars>>

\* the wall clock advances
Tick ==
    /\ now < MaxTicks
    /\ now' = now + 1
    /\ UNCHANGED <<tmp, wk, fsVars, restoreVars, batchVars, pipeVars, actorVars,
                   seasonVars, logoVars, tmdbVars, frameVars>>

NextTemp ==
    \/ WorkerStart
    \/ \E i \in 1..NFiles : WorkerExtract(i)
    \/ \E i \in 1..NFiles : WorkerFinally(i)
    \/ Tick

SpecTemp == InitTemp /\ [][NextTemp]_vars

\* C28: two workers that run at the same time never use the same temporary
\* directory, and the frames a worker wrote are in its directory for as long
\* as it uses them.
C28_DistinctTempDirs ==
    /\ \A i, j \in Active : i # j => wk[i].temp_dir # wk[j].temp_dir
    /\ \A i \in DOMAIN wk :
          wk[i].at = "frames" =>
              /\ wk[i].temp_dir \in DOMAIN tmp
              /\ tmp[wk[i].temp_dir] = i

\* C28, the case where the code agrees: two workers running at the same time
\* with different directories
C28_Witness ==
    /\ Cardinality(Active) = 2
    /\ \A i, j \in Active : i # j => wk[i].temp_dir # wk[j].temp_dir
    /\ \A i \in Active : wk[i].at = "frames" /\ tmp[wk[i].temp_dir] = i

\* the result the current iteration of process_batch counts
CountedResult ==
    IF config.debug
    THEN process_single_video(fs, video_files[Len(results) + 1],
                              ident[Len(results) + 1]).result
    ELSE ready[1].result

\* an unmatched result whose message starts with 'Error'
IsErrorResult(result) ==
    /\ ~result.identificado
    /\ "mensaje" \in DOMAIN result
    /\ StartsWith(result.mensaje, <<"Error">>)

Count(b) == IF b THEN 1 ELSE 0

====
